---------------------------- MODULE Spec2Model ----------------------------
(***************************************************************************)
(* Model of the artifact-encoding layer of the OpenVM STARK verification   *)
(* web client (web/assets/proof-utils.js) and of its end-to-end test       *)
(* harness (web/test-verify.mjs).                                          *)
(*                                                                         *)
(* Representation of JavaScript values                                     *)
(*   string      a sequence of one-character strings, <<"0","x","a","b">>  *)
(*   undefined   the distinguished value Undefined                         *)
(*   Uint8Array  a sequence of integers in 0..255                          *)
(*   BigInt      a sequence of base-256 digits, least significant first,   *)
(*               without leading zero digits (0n is << >>); TLC's          *)
(*               integers are 32 bits wide, a BigInt is not                *)
(*   Number      an integer below 2^31 is itself; the argument of          *)
(*               bitcodeEncodeU32 ranges over [0, 2^32) and is the pair    *)
(*               <<hi, lo>> of its 16-bit halves                           *)
(*   completion  a record [tag, val]: Ok(v) for a normal return of v,      *)
(*               Throw(e) for an exception named e                         *)
(*   object      a record; an absent property holds Undefined              *)
(***************************************************************************)
EXTENDS Integers, Sequences, FiniteSets, TLC

VARIABLES
    fn,     \* the function the script under consideration calls
    args,   \* the argument of each successive call
    rets,   \* the completions of the calls made so far
    proc,   \* the runs of the test harness: proc[r] is the state of run r
    fs,     \* the files the runs of the harness read and write
    _zstdSimple  \* let _zstdSimple of proof-utils.js

vars == <<fn, args, rets, proc, fs, _zstdSimple>>

-----------------------------------------------------------------------------
(* Program constants *)

\* const BABYBEAR_P = 2013265921n
BABYBEAR_P == 2013265921

\* The digits of BABYBEAR_P = 0x78000001 as a BigInt.
BABYBEAR_P_BIG == <<1, 0, 0, 120>>

\* const MONTY_R = 1n << 32n
MONTY_R == <<0, 0, 0, 0, 1>>

\* Number of limbs of a commitment: the bound of the decomposition loop.
DIGEST_LIMBS == 8

-----------------------------------------------------------------------------
(* Completions *)

Ok(v) == [tag |-> "ok", val |-> v]

Throw(e) == [tag |-> "throw", val |-> e]

Undefined == <<"undefined">>

\* A reference: null, undefined, or the object with the identity id
NullRef == [kind |-> "null", id |-> 0]
UndefinedRef == [kind |-> "undefined", id |-> 0]
ObjectRef(id) == [kind |-> "object", id |-> id]

\* !v and if (v) for a reference v: null and undefined are falsy, an object
\* is truthy
Falsy(v) == v.kind \in {"null", "undefined"}

-----------------------------------------------------------------------------
(* BigInt arithmetic: exact, on digit sequences.                           *)
(* A pass over the digits that carries a value from one digit to the next  *)
(* (a carry, a partial remainder) is written as a function of an index     *)
(* range and the value carried in, and splits the range in two halves.     *)

\* a without its leading zero digits
BigNorm(a) ==
    LET nonzero == {k \in 1..Len(a) : a[k] # 0}
    IN IF nonzero = {} THEN << >>
       ELSE SubSeq(a, 1, CHOOSE m \in nonzero : \A k \in nonzero : k <= m)

\* Digit k of a, 0 beyond its length
BigDigit(a, k) == IF k <= Len(a) THEN a[k] ELSE 0

\* BigInt(n) for a Number 0 <= n < 2^31
BigInt(n) ==
    BigNorm(<<n % 256, (n \div 256) % 256, (n \div 65536) % 256, n \div 16777216>>)

\* (a << 8n) | BigInt(byte), for 0 <= byte < 256: the low 8 bits of a << 8n are 0
BigShl8Or(a, byte) == BigNorm(<<byte>> \o a)

\* a + b
BigAdd(a, b) ==
    LET n == (IF Len(a) > Len(b) THEN Len(a) ELSE Len(b)) + 1
        Add[lo \in Nat, hi \in Nat, carry \in Nat] ==
            IF lo = hi
            THEN LET sum == BigDigit(a, lo) + BigDigit(b, lo) + carry
                 IN [d |-> <<sum % 256>>, c |-> sum \div 256]
            ELSE LET mid == (lo + hi) \div 2
                     low == Add[lo, mid, carry]
                     high == Add[mid + 1, hi, low.c]
                 IN [d |-> low.d \o high.d, c |-> high.c]
    IN IF a = << >> THEN b
       ELSE IF b = << >> THEN a
       ELSE BigNorm(Add[1, n, 0].d)

\* a * m for one digit 0 <= m < 256
BigMulDigit(a, m) ==
    LET Mul[lo \in Nat, hi \in Nat, carry \in Nat] ==
            IF lo = hi
            THEN LET prod == BigDigit(a, lo) * m + carry
                 IN [d |-> <<prod % 256>>, c |-> prod \div 256]
            ELSE LET mid == (lo + hi) \div 2
                     low == Mul[lo, mid, carry]
                     high == Mul[mid + 1, hi, low.c]
                 IN [d |-> low.d \o high.d, c |-> high.c]
    IN IF a = << >> \/ m = 0 THEN << >>
       ELSE BigNorm(Mul[1, Len(a) + 1, 0].d)

\* a * b: the sum over the digits b[j] of (a * b[j]) << 8(j - 1)
BigMul(a, b) ==
    LET Sum[lo \in Nat, hi \in Nat] ==
            IF lo = hi
            THEN BigNorm([k \in 1..(lo - 1) |-> 0] \o BigMulDigit(a, b[lo]))
            ELSE LET mid == (lo + hi) \div 2
                 IN BigAdd(Sum[lo, mid], Sum[mid + 1, hi])
    IN IF a = << >> \/ b = << >> THEN << >> ELSE Sum[1, Len(b)]

\* Bit j of a, bit 0 the least significant
BigBit(a, j) == (a[(j \div 8) + 1] \div (2 ^ (j % 8))) % 2

\* Long division of a by 0 < p < 2^31, one bit of a at a time from the most
\* significant: the partial remainder r < p doubles and takes the next bit,
\* and p is subtracted when it fits. 2r + bit >= p is tested as
\* r >= p - r - bit, so that no intermediate value leaves 32 bits.
\* The result is [q, r]: the quotient as a BigInt, the remainder as a Number.
BigDivMod(a, p) ==
    LET Div[lo \in Nat, hi \in Nat, r \in Nat] ==
            IF lo = hi
            THEN LET bit == BigBit(a, lo)
                 IN IF r >= p - r - bit
                    THEN [q |-> <<1>>, r |-> r - (p - r - bit)]
                    ELSE [q |-> <<0>>, r |-> r + r + bit]
            ELSE LET mid == (lo + hi) \div 2
                     high == Div[mid + 1, hi, r]
                     low == Div[lo, mid, high.r]
                 IN [q |-> low.q \o high.q, r |-> low.r]
        res == Div[0, 8 * Len(a) - 1, 0]
        QuotDigit(k) ==
            LET j == 8 * (k - 1)
            IN res.q[j + 1] + 2 * res.q[j + 2] + 4 * res.q[j + 3]
               + 8 * res.q[j + 4] + 16 * res.q[j + 5] + 32 * res.q[j + 6]
               + 64 * res.q[j + 7] + 128 * res.q[j + 8]
    IN IF a = << >> THEN [q |-> << >>, r |-> 0]
       ELSE [q |-> BigNorm([k \in 1..Len(a) |-> QuotDigit(k)]), r |-> res.r]

\* Number(a % p): the remainder is below p < 2^31
BigMod(a, p) == BigDivMod(a, p).r

\* a / p (BigInt division truncates; the operands are never negative)
BigDiv(a, p) == BigDivMod(a, p).q

\* a < b
BigLess(a, b) ==
    \/ Len(a) < Len(b)
    \/ /\ Len(a) = Len(b)
       /\ \E k \in 1..Len(a) :
            /\ a[k] < b[k]
            /\ \A j \in (k + 1)..Len(a) : a[j] = b[j]

-----------------------------------------------------------------------------
(* String.prototype operations and parseInt *)

\* hex.replace(/^0x/, ''): removes one lower-case "0x" at the very start
StripPrefix0x(hex) ==
    IF Len(hex) >= 2 /\ hex[1] = "0" /\ hex[2] = "x"
    THEN SubSeq(hex, 3, Len(hex))
    ELSE hex

\* clean.substring(i, j) for 0 <= i <= j; j is clamped to the length
substring(str, i, j) ==
    SubSeq(str, i + 1, IF j > Len(str) THEN Len(str) ELSE j)

\* The value of a character as a digit, -1 when it is no digit in radix 16
DigitValue(ch) ==
    CASE ch = "0" -> 0  [] ch = "1" -> 1  [] ch = "2" -> 2  [] ch = "3" -> 3
      [] ch = "4" -> 4  [] ch = "5" -> 5  [] ch = "6" -> 6  [] ch = "7" -> 7
      [] ch = "8" -> 8  [] ch = "9" -> 9
      [] ch = "a" \/ ch = "A" -> 10  [] ch = "b" \/ ch = "B" -> 11
      [] ch = "c" \/ ch = "C" -> 12  [] ch = "d" \/ ch = "D" -> 13
      [] ch = "e" \/ ch = "E" -> 14  [] ch = "f" \/ ch = "F" -> 15
      [] OTHER -> -1

IsDigit(ch, radix) == DigitValue(ch) >= 0 /\ DigitValue(ch) < radix

RECURSIVE TrimStart(_)
TrimStart(str) ==
    IF str # << >> /\ Head(str) = " " THEN TrimStart(Tail(str)) ELSE str

RECURSIVE ParseDigits(_, _, _)
\* The longest prefix of str made of digits, as a number; acc is its value so far
ParseDigits(str, radix, acc) ==
    IF str # << >> /\ IsDigit(Head(str), radix)
    THEN ParseDigits(Tail(str), radix, acc * radix + DigitValue(Head(str)))
    ELSE acc

\* parseInt(str, radix) of ECMAScript, as [nan, n]: leading white space is
\* skipped, a sign is taken, for radix 16 a "0x" or "0X" is skipped, and the
\* longest prefix of digits is the value; NaN when that prefix is empty.
parseInt(str, radix) ==
    LET trimmed == TrimStart(str)
        negative == trimmed # << >> /\ Head(trimmed) = "-"
        unsigned == IF trimmed # << >> /\ Head(trimmed) \in {"+", "-"}
                    THEN Tail(trimmed) ELSE trimmed
        body == IF /\ radix = 16
                   /\ Len(unsigned) >= 2
                   /\ unsigned[1] = "0"
                   /\ unsigned[2] \in {"x", "X"}
                THEN SubSeq(unsigned, 3, Len(unsigned)) ELSE unsigned
        n == ParseDigits(body, radix, 0)
    IN IF body = << >> \/ ~IsDigit(Head(body), radix)
       THEN [nan |-> TRUE, n |-> 0]
       ELSE [nan |-> FALSE, n |-> IF negative THEN 0 - n ELSE n]

\* The conversion of a stored Number to an element of a Uint8Array (ToUint8):
\* NaN becomes 0, an integer is taken modulo 256.
ToUint8(num) == IF num.nan THEN 0 ELSE num.n % 256

\* bytes[index] = num on a Uint8Array: an index outside the array is ignored
StoreUint8(bytes, index, num) ==
    IF index >= 0 /\ index < Len(bytes)
    THEN [bytes EXCEPT ![index + 1] = ToUint8(num)]
    ELSE bytes

\* new Uint8Array(length): ToIndex truncates a fractional length; all zero
NewUint8Array(twiceLength) == [k \in 1..(twiceLength \div 2) |-> 0]

-----------------------------------------------------------------------------
(* proof-utils.js: the encoding layer *)

RECURSIVE HexLoop(_, _)
\* for (let i = 0; i < clean.length; i += 2)
\*   bytes[i / 2] = parseInt(clean.substring(i, i + 2), 16);
\* st is the loop's state [bytes, i].
HexLoop(clean, st) ==
    IF st.i < Len(clean)
    THEN HexLoop(clean,
                 [bytes |-> StoreUint8(st.bytes, st.i \div 2,
                                       parseInt(substring(clean, st.i, st.i + 2), 16)),
                  i |-> st.i + 2])
    ELSE st.bytes

\* Variant: the 0x prefix is not removed.
hexToBytes_KeepsPrefix(hex) ==
    IF hex = Undefined
    THEN Throw("TypeError")
    ELSE Ok(HexLoop(hex, [bytes |-> NewUint8Array(Len(hex)), i |-> 0]))

\* export function hexToBytes(hex)
hexToBytes(hex) ==
    IF hex = Undefined
    THEN Throw("TypeError")     \* undefined has no replace method
    ELSE LET clean == StripPrefix0x(hex)
         IN Ok(HexLoop(clean, [bytes |-> NewUint8Array(Len(clean)), i |-> 0]))

RECURSIVE BytesToBigInt(_, _)
\* for (const byte of raw) bigint = (bigint << 8n) | BigInt(byte);
\* st is the loop's state [bigint, k], raw[k] the next byte.
BytesToBigInt(raw, st) ==
    IF st.k > Len(raw) THEN st.bigint
    ELSE BytesToBigInt(raw, [bigint |-> BigShl8Or(st.bigint, raw[st.k]),
                             k |-> st.k + 1])

RECURSIVE DecomposeLoop(_)
\* for (let i = 0; i < 8; i++) {
\*   result.push(Number(bigint % BABYBEAR_P)); bigint = bigint / BABYBEAR_P; }
\* st is the loop's state [bigint, i, result].
DecomposeLoop(st) ==
    IF st.i < DIGEST_LIMBS
    THEN DecomposeLoop([bigint |-> BigDiv(st.bigint, BABYBEAR_P),
                        i |-> st.i + 1,
                        result |-> Append(st.result, BigMod(st.bigint, BABYBEAR_P))])
    ELSE st.result

\* Variant: the bytes are read least significant first.
commitHexToCanonicalU32s_LittleEndian(hexStr) ==
    LET raw == hexToBytes(hexStr)
    IN IF raw.tag = "throw" THEN raw
       ELSE Ok(DecomposeLoop([bigint |-> BigNorm(raw.val),
                              i |-> 0,
                              result |-> << >>]))

\* Variant: the loop runs while (bigint > 0n) instead of 8 times.
commitHexToCanonicalU32s_UntilZero(hexStr) ==
    LET raw == hexToBytes(hexStr)
        full == DecomposeLoop([bigint |-> BytesToBigInt(raw.val, [bigint |-> << >>, k |-> 1]),
                               i |-> 0,
                               result |-> << >>])
        used == {k \in 1..Len(full) : \E j \in k..Len(full) : full[j] # 0}
    IN IF raw.tag = "throw" THEN raw
       ELSE Ok(SubSeq(full, 1, Cardinality(used)))

\* Variant: result.unshift instead of result.push, most significant limb first.
commitHexToCanonicalU32s_Reversed(hexStr) ==
    LET raw == hexToBytes(hexStr)
        full == DecomposeLoop([bigint |-> BytesToBigInt(raw.val, [bigint |-> << >>, k |-> 1]),
                               i |-> 0,
                               result |-> << >>])
    IN IF raw.tag = "throw" THEN raw
       ELSE Ok([k \in 1..Len(full) |-> full[Len(full) + 1 - k]])

commitHexToCanonicalU32s(hexStr) ==
    LET raw == hexToBytes(hexStr)
    IN IF raw.tag = "throw" THEN raw
       ELSE Ok(DecomposeLoop([bigint |-> BytesToBigInt(raw.val, [bigint |-> << >>, k |-> 1]),
                              i |-> 0,
                              result |-> << >>]))

\* ToInt32: the operand of a bitwise operator, taken modulo 2^32 as a signed
\* 32-bit integer; val is a pair <<hi, lo>> of 16-bit halves
ToInt32(val) ==
    IF val[1] >= 32768
    THEN (val[1] - 65536) * 65536 + val[2]
    ELSE val[1] * 65536 + val[2]

\* Variant: (canonical << 32) % P on Numbers; a shift count is taken modulo 32.
toMonty_NumberShift(canonical) == canonical % BABYBEAR_P

\* Variant: ((canonical << 16) << 16) % P on Numbers, in 32-bit arithmetic.
toMonty_Int32Shift(canonical) ==
    LET once == <<canonical % 65536, 0>>
        twice == <<once[2], 0>>
    IN ToInt32(twice) % BABYBEAR_P

\* Number((BigInt(canonical) * MONTY_R) % BABYBEAR_P)
toMonty(canonical) == BigMod(BigMul(BigInt(canonical), MONTY_R), BABYBEAR_P)

\* A Number of [0, 2^32) as the pair of its 16-bit halves, from a Number < 2^31
Num(n) == <<n \div 65536, n % 65536>>

\* val > k for a Number val = <<hi, lo>> and 0 <= k < 2^31
NumGreater(val, k) ==
    \/ val[1] > k \div 65536
    \/ val[1] = k \div 65536 /\ val[2] > k % 65536

\* x >> n on an int32: the sign-propagating shift
ShiftRight(x, n) == x \div (2 ^ n)

\* x & 0xff on an int32 in two's complement
AndFF(x) == x % 256

\* Variant: the first test is val > 65536.
bitcodeEncodeU32_OffByOne(val) ==
    IF NumGreater(val, 65536)
    THEN <<0,
           AndFF(ToInt32(val)),
           AndFF(ShiftRight(ToInt32(val), 8)),
           AndFF(ShiftRight(ToInt32(val), 16)),
           AndFF(ShiftRight(ToInt32(val), 24))>>
    ELSE IF NumGreater(val, 255)
    THEN <<2, AndFF(ToInt32(val)), AndFF(ShiftRight(ToInt32(val), 8))>>
    ELSE <<4, AndFF(ToInt32(val))>>

\* Variant: the payload is written most significant byte first.
bitcodeEncodeU32_BigEndian(val) ==
    IF NumGreater(val, 65535)
    THEN <<0,
           AndFF(ShiftRight(ToInt32(val), 24)),
           AndFF(ShiftRight(ToInt32(val), 16)),
           AndFF(ShiftRight(ToInt32(val), 8)),
           AndFF(ToInt32(val))>>
    ELSE IF NumGreater(val, 255)
    THEN <<2, AndFF(ShiftRight(ToInt32(val), 8)), AndFF(ToInt32(val))>>
    ELSE <<4, AndFF(ToInt32(val))>>

bitcodeEncodeU32(val) ==
    IF NumGreater(val, 65535)
    THEN <<0,
           AndFF(ToInt32(val)),
           AndFF(ShiftRight(ToInt32(val), 8)),
           AndFF(ShiftRight(ToInt32(val), 16)),
           AndFF(ShiftRight(ToInt32(val), 24))>>
    ELSE IF NumGreater(val, 255)
    THEN <<2, AndFF(ToInt32(val)), AndFF(ShiftRight(ToInt32(val), 8))>>
    ELSE <<4, AndFF(ToInt32(val))>>

RECURSIVE TotalLength(_)
\* parts.reduce((s, p) => s + p.length, 0)
TotalLength(parts) ==
    IF parts = << >> THEN 0 ELSE Len(Head(parts)) + TotalLength(Tail(parts))

\* target.set(source, offset) on a Uint8Array, for offset + source.length
\* within the target
TypedArraySet(target, source, offset) ==
    [k \in 1..Len(target) |->
        IF k > offset /\ k <= offset + Len(source)
        THEN source[k - offset] ELSE target[k]]

RECURSIVE SetParts(_, _)
\* for (const p of parts) { result.set(p, offset); offset += p.length; }
\* st is the loop's state [result, offset, k], parts[k] the next part.
SetParts(parts, st) ==
    IF st.k > Len(parts) THEN st.result
    ELSE SetParts(parts, [result |-> TypedArraySet(st.result, parts[st.k], st.offset),
                          offset |-> st.offset + Len(parts[st.k]),
                          k |-> st.k + 1])

\* Variant: the canonical limbs are encoded without the Montgomery conversion.
encodeCommitAsBitcode_NoMonty(hexStr) ==
    LET canonical == commitHexToCanonicalU32s(hexStr)
    IN IF canonical.tag = "throw" THEN canonical
       ELSE LET parts == [i \in 1..Len(canonical.val) |->
                            bitcodeEncodeU32(Num(canonical.val[i]))]
                totalLen == TotalLength(parts)
            IN Ok(SetParts(parts, [result |-> [k \in 1..totalLen |-> 0],
                                      offset |-> 0, k |-> 1]))

encodeCommitAsBitcode(hexStr) ==
    LET canonical == commitHexToCanonicalU32s(hexStr)
    IN IF canonical.tag = "throw" THEN canonical
       ELSE LET parts == [i \in 1..Len(canonical.val) |->
                            bitcodeEncodeU32(Num(toMonty(canonical.val[i])))]
                totalLen == TotalLength(parts)
            IN Ok(SetParts(parts, [result |-> [k \in 1..totalLen |-> 0],
                                      offset |-> 0, k |-> 1]))

-----------------------------------------------------------------------------
(* VK construction and proof processing *)

\* Variant: the vm commitment is written before the exe commitment.
constructVmStarkVk_VmFirst(aggVkBytes, exeCommitHex, vmCommitHex) ==
    LET Concat(exeEncoded, vmEncoded) ==
            IF exeEncoded.tag = "throw" THEN exeEncoded
            ELSE IF vmEncoded.tag = "throw" THEN vmEncoded
            ELSE LET n == Len(aggVkBytes) + Len(exeEncoded.val) + Len(vmEncoded.val)
                     vk0 == [k \in 1..n |-> 0]
                     vk1 == TypedArraySet(vk0, aggVkBytes, 0)
                     vk2 == TypedArraySet(vk1, vmEncoded.val, Len(aggVkBytes))
                     vk3 == TypedArraySet(vk2, exeEncoded.val,
                                          Len(aggVkBytes) + Len(vmEncoded.val))
                 IN Ok(vk3)
    IN Concat(encodeCommitAsBitcode(exeCommitHex),
              encodeCommitAsBitcode(vmCommitHex))

\* export function constructVmStarkVk(aggVkBytes, exeCommitHex, vmCommitHex)
constructVmStarkVk(aggVkBytes, exeCommitHex, vmCommitHex) ==
    LET Concat(exeEncoded, vmEncoded) ==
            IF exeEncoded.tag = "throw" THEN exeEncoded
            ELSE IF vmEncoded.tag = "throw" THEN vmEncoded
            ELSE LET n == Len(aggVkBytes) + Len(exeEncoded.val) + Len(vmEncoded.val)
                     vk0 == [k \in 1..n |-> 0]
                     vk1 == TypedArraySet(vk0, aggVkBytes, 0)
                     vk2 == TypedArraySet(vk1, exeEncoded.val, Len(aggVkBytes))
                     vk3 == TypedArraySet(vk2, vmEncoded.val,
                                          Len(aggVkBytes) + Len(exeEncoded.val))
                 IN Ok(vk3)
    IN Concat(encodeCommitAsBitcode(exeCommitHex),
              encodeCommitAsBitcode(vmCommitHex))

\* Variant: the public values are written before the proof.
buildProofBytes_PublicValuesFirst(proofJson) ==
    LET proofHex == proofJson.proof
        upvHex == proofJson.user_public_values
        proofBin == hexToBytes(proofHex)
        upvBin == hexToBytes(upvHex)
    IN IF proofBin.tag = "throw" THEN proofBin
       ELSE IF upvBin.tag = "throw" THEN upvBin
       ELSE LET n == Len(proofBin.val) + Len(upvBin.val)
                combined0 == [k \in 1..n |-> 0]
                combined1 == TypedArraySet(combined0, upvBin.val, 0)
                combined2 == TypedArraySet(combined1, proofBin.val, Len(upvBin.val))
            IN Ok([proofBytes |-> combined2,
                   userPublicValuesHex |-> StripPrefix0x(upvHex)])

\* export function buildProofBytes(proofJson) of proof-utils.js
buildProofBytes(proofJson) ==
    LET proofHex == proofJson.proof
        upvHex == proofJson.user_public_values
        proofBin == hexToBytes(proofHex)
        upvBin == hexToBytes(upvHex)
    IN IF proofBin.tag = "throw" THEN proofBin
       ELSE IF upvBin.tag = "throw" THEN upvBin
       ELSE LET n == Len(proofBin.val) + Len(upvBin.val)
                combined0 == [k \in 1..n |-> 0]
                combined1 == TypedArraySet(combined0, proofBin.val, 0)
                combined2 == TypedArraySet(combined1, upvBin.val, Len(proofBin.val))
            IN Ok([proofBytes |-> combined2,
                   userPublicValuesHex |-> StripPrefix0x(upvHex)])

-----------------------------------------------------------------------------
(* test-verify.mjs: the harness's own copy of the encoding layer *)

\* const BABYBEAR_P = 2013265921n (test-verify.mjs)
TestVerifyBABYBEAR_P == 2013265921

\* const MONTY_R = 1n << 32n (test-verify.mjs)
TestVerifyMONTY_R == <<0, 0, 0, 0, 1>>

RECURSIVE TestVerifyHexLoop(_, _)
\* for (let i = 0; i < clean.length; i += 2)
\*   bytes[i / 2] = parseInt(clean.substring(i, i + 2), 16);
TestVerifyHexLoop(clean, st) ==
    IF st.i < Len(clean)
    THEN TestVerifyHexLoop(clean,
            [bytes |-> StoreUint8(st.bytes, st.i \div 2,
                                  parseInt(substring(clean, st.i, st.i + 2), 16)),
             i |-> st.i + 2])
    ELSE st.bytes

\* Variant: the 0x prefix is not removed.
TestVerifyHexToBytes_KeepsPrefix(hex) ==
    IF hex = Undefined
    THEN Throw("TypeError")
    ELSE Ok(TestVerifyHexLoop(hex, [bytes |-> NewUint8Array(Len(hex)), i |-> 0]))

\* function hexToBytes(hex) of test-verify.mjs
TestVerifyHexToBytes(hex) ==
    IF hex = Undefined
    THEN Throw("TypeError")
    ELSE LET clean == StripPrefix0x(hex)
         IN Ok(TestVerifyHexLoop(clean,
                    [bytes |-> NewUint8Array(Len(clean)), i |-> 0]))

RECURSIVE TestVerifyBytesToBigInt(_, _)
\* for (const byte of raw) bigint = (bigint << 8n) | BigInt(byte);
TestVerifyBytesToBigInt(raw, st) ==
    IF st.k > Len(raw) THEN st.bigint
    ELSE TestVerifyBytesToBigInt(raw,
            [bigint |-> BigShl8Or(st.bigint, raw[st.k]), k |-> st.k + 1])

RECURSIVE TestVerifyDecomposeLoop(_)
\* for (let i = 0; i < 8; i++) {
\*   result.push(Number(bigint % BABYBEAR_P)); bigint = bigint / BABYBEAR_P; }
TestVerifyDecomposeLoop(st) ==
    IF st.i < 8
    THEN TestVerifyDecomposeLoop(
            [bigint |-> BigDiv(st.bigint, TestVerifyBABYBEAR_P),
             i |-> st.i + 1,
             result |-> Append(st.result, BigMod(st.bigint, TestVerifyBABYBEAR_P))])
    ELSE st.result

\* function commitHexToCanonicalU32s(hexStr) of test-verify.mjs
TestVerifyCommitHexToCanonicalU32s(hexStr) ==
    LET raw == TestVerifyHexToBytes(hexStr)
    IN IF raw.tag = "throw" THEN raw
       ELSE Ok(TestVerifyDecomposeLoop(
                [bigint |-> TestVerifyBytesToBigInt(raw.val,
                                [bigint |-> << >>, k |-> 1]),
                 i |-> 0,
                 result |-> << >>]))

\* function toMonty(canonical) of test-verify.mjs
TestVerifyToMonty(canonical) ==
    BigMod(BigMul(BigInt(canonical), TestVerifyMONTY_R), TestVerifyBABYBEAR_P)

\* function bitcodeEncodeU32(val) of test-verify.mjs
TestVerifyBitcodeEncodeU32(val) ==
    IF NumGreater(val, 65535)
    THEN <<0,
           AndFF(ToInt32(val)),
           AndFF(ShiftRight(ToInt32(val), 8)),
           AndFF(ShiftRight(ToInt32(val), 16)),
           AndFF(ShiftRight(ToInt32(val), 24))>>
    ELSE IF NumGreater(val, 255)
    THEN <<2, AndFF(ToInt32(val)), AndFF(ShiftRight(ToInt32(val), 8))>>
    ELSE <<4, AndFF(ToInt32(val))>>

RECURSIVE TestVerifySetParts(_, _)
\* for (const p of parts) { result.set(p, offset); offset += p.length; }
TestVerifySetParts(parts, st) ==
    IF st.k > Len(parts) THEN st.result
    ELSE TestVerifySetParts(parts,
            [result |-> TypedArraySet(st.result, parts[st.k], st.offset),
             offset |-> st.offset + Len(parts[st.k]),
             k |-> st.k + 1])

\* function encodeCommitAsBitcode(hexStr) of test-verify.mjs
TestVerifyEncodeCommitAsBitcode(hexStr) ==
    LET canonical == TestVerifyCommitHexToCanonicalU32s(hexStr)
    IN IF canonical.tag = "throw" THEN canonical
       ELSE LET parts == [i \in 1..Len(canonical.val) |->
                            TestVerifyBitcodeEncodeU32(
                                Num(TestVerifyToMonty(canonical.val[i])))]
                totalLen == TotalLength(parts)
            IN Ok(TestVerifySetParts(parts, [result |-> [k \in 1..totalLen |-> 0],
                                             offset |-> 0, k |-> 1]))

\* function constructVmStarkVk(aggVk, exeCommitHex, vmCommitHex) of
\* test-verify.mjs
TestVerifyConstructVmStarkVk(aggVk, exeCommitHex, vmCommitHex) ==
    LET Concat(exeEncoded, vmEncoded) ==
            IF exeEncoded.tag = "throw" THEN exeEncoded
            ELSE IF vmEncoded.tag = "throw" THEN vmEncoded
            ELSE LET n == Len(aggVk) + Len(exeEncoded.val) + Len(vmEncoded.val)
                     vk0 == [k \in 1..n |-> 0]
                     vk1 == TypedArraySet(vk0, aggVk, 0)
                     vk2 == TypedArraySet(vk1, exeEncoded.val, Len(aggVk))
                     vk3 == TypedArraySet(vk2, vmEncoded.val,
                                          Len(aggVk) + Len(exeEncoded.val))
                 IN Ok(vk3)
    IN Concat(TestVerifyEncodeCommitAsBitcode(exeCommitHex),
              TestVerifyEncodeCommitAsBitcode(vmCommitHex))

-----------------------------------------------------------------------------
(* The inputs of the scripts considered *)

\* Bounds of the input sets
MaxHexLen == 4          \* hexToBytes: every string of at most this length
CanonSpread == 2        \* toMonty: this many values beside each edge of [0, P)
U32Spread == 2          \* bitcodeEncodeU32: this many values beside each edge
OverflowMax == 2        \* digests: multiples of P^8 added, up to this factor
DigestSeeds == 3        \* digests: number of byte patterns

\* The characters of the strings decoded: hex digits of both cases, the
\* prefix letter, a letter that is no hex digit, a sign and white space
HexAlphabet == {"0", "1", "a", "F", "x", "g", "-", " "}

HexInputs ==
    {Undefined} \cup UNION {[1..n -> HexAlphabet] : n \in 0..MaxHexLen}

HexChar(v) ==
    <<"0", "1", "2", "3", "4", "5", "6", "7",
      "8", "9", "a", "b", "c", "d", "e", "f">>[v + 1]

\* The 64 hex digits of the 32-byte big-endian digest of value a < 2^256
DigestHex(a) ==
    [k \in 1..64 |->
        LET byte == BigDigit(a, 32 - ((k - 1) \div 2))
        IN HexChar(IF k % 2 = 1 THEN byte \div 16 ELSE byte % 16)]

\* limbs[1] + limbs[2] * P + ... + limbs[n] * P^(n-1) as a BigInt, by
\* Horner's rule from the last limb down
FromLimbs(limbs) ==
    LET Horner[k \in Nat, acc \in Seq(Nat)] ==
            IF k = 0 THEN acc
            ELSE Horner[k - 1, BigAdd(BigMul(acc, BABYBEAR_P_BIG), BigInt(limbs[k]))]
    IN Horner[Len(limbs), << >>]

\* Limb values: the edges of [0, P) and one value inside
LimbSamples == {0, 1, BABYBEAR_P - 1, 123456789}

\* Digest values: every limb x but one limb y, plus a multiple of P^8 (values
\* of at least P^8 have a nonzero multiple), and byte patterns; all below 2^256
DigestValues ==
    {v \in
        {FromLimbs([i \in 1..(DIGEST_LIMBS + 1) |->
                        IF i = DIGEST_LIMBS + 1 THEN m ELSE IF i = j THEN y ELSE x]) :
            x \in {0, BABYBEAR_P - 1}, y \in LimbSamples,
            j \in {1, 2, DIGEST_LIMBS}, m \in 0..OverflowMax}
        \cup {FromLimbs(<<0, 0, 0, 0, 0, 0, 0, 0, 429>>)}
        \cup {BigNorm([k \in 1..32 |-> (k * (37 * seed + 1) + 255 * (seed % 2)) % 256]) :
                seed \in 0..DigestSeeds} :
     Len(v) <= 32}

DigestInputs == {DigestHex(v) : v \in DigestValues}

\* Canonical values: beside both edges of [0, P), around 2^21 (where the
\* product with 2^32 passes 2^53), and inside
CanonSamples ==
    (0..CanonSpread) \cup ((BABYBEAR_P - 1 - CanonSpread)..(BABYBEAR_P - 1))
    \cup {2097151, 2097152, 2097153, 123456789, 1073741824}

\* Values of at least P
NonCanonSamples == (BABYBEAR_P..(BABYBEAR_P + CanonSpread)) \cup {2147483647}

\* Numbers of [0, 2^32) as <<hi, lo>>: beside 0, 255|256, 65535|65536,
\* 2^31 and 2^32, the spec's vectors 300 and 70000, P - 1, and two values
\* whose four bytes differ
U32Samples ==
    {<<0, lo>> : lo \in (0..U32Spread) \cup ((255 - U32Spread)..(256 + U32Spread))
                        \cup {300} \cup ((65535 - U32Spread)..65535)}
    \cup {<<1, lo>> : lo \in (0..U32Spread) \cup {4464}}
    \cup {<<32767, 65535 - lo>> : lo \in 0..U32Spread}
    \cup {<<32768, lo>> : lo \in 0..U32Spread}
    \cup {<<65535, 65535 - lo>> : lo \in 0..U32Spread}
    \cup {<<30720, 0>>, <<4660, 22136>>, <<35243, 52719>>}

\* Commitments: the digests 00..00, 00..01, ff..ff and one byte pattern, and
\* an absent commitment
CommitSamples ==
    {Undefined}
    \cup {DigestHex(v) : v \in {<< >>, <<1>>, [k \in 1..32 |-> 255],
                                [k \in 1..32 |-> (38 * k) % 256]}}

\* Base verifying keys: empty, and of one and of three bytes
AggVkSamples == {<< >>, <<7>>, <<0, 255, 4>>}

\* The hex fields of a proof JSON: absent, empty, with and without the 0x
\* prefix, of one and two bytes
ProofHexSamples ==
    {Undefined, << >>, <<"a", "b">>, <<"0", "x", "a", "b">>,
     <<"0", "1", "F", "f">>, <<"0", "0">>}

ProofJsonSamples ==
    [proof : ProofHexSamples, user_public_values : ProofHexSamples]

\* "0x" + h
Prefixed(h) == <<"0", "x">> \o h

\* The hex strings of even length among the strings decoded
EvenHexStrings ==
    {h \in UNION {[1..n -> {"0", "1", "a", "F"}] : n \in 0..MaxHexLen} :
        Len(h) % 2 = 0}

\* The commitments that are present
DigestSamples == CommitSamples \ {Undefined}

\* A value with and without the 0x prefix on its hex strings: a hex string,
\* a commitment, the arguments of constructVmStarkVk, a proof JSON
PrefixPairs ==
    [hexToBytes |-> {<<h, Prefixed(h)>> : h \in EvenHexStrings},
     encodeCommitAsBitcode |-> {<<h, Prefixed(h)>> : h \in DigestSamples},
     constructVmStarkVk |->
        {<<<<a, exe, vm>>, <<a, Prefixed(exe), Prefixed(vm)>>>> :
            a \in {<<0, 255, 4>>}, exe \in DigestSamples, vm \in DigestSamples},
     buildProofBytes |->
        {<<[proof |-> h, user_public_values |-> g],
           [proof |-> Prefixed(h), user_public_values |-> Prefixed(g)]>> :
            h \in {<<"a", "b">>, << >>}, g \in {<<"0", "1", "F", "f">>, <<"0", "0">>}}]

-----------------------------------------------------------------------------
(* The state machine: a script calls one function of the encoding layer on  *)
(* each of its arguments in turn.                                          *)

Init ==
    /\ rets = << >>
    /\ proc = << >>
    /\ fs = << >>
    /\ _zstdSimple = NullRef
    /\ \/ fn = "hexToBytes" /\ args \in {<<h>> : h \in HexInputs}
       \/ \E f \in DOMAIN PrefixPairs : fn = f /\ args \in PrefixPairs[f]
       \/ fn = "commitHexToCanonicalU32s" /\ args \in {<<h>> : h \in DigestInputs}
       \/ fn = "toMonty"
            /\ args \in {<<a>> : a \in CanonSamples \cup NonCanonSamples}
                        \cup (CanonSamples \X CanonSamples)
       \/ fn = "bitcodeEncodeU32" /\ args \in {<<v>> : v \in U32Samples}
       \/ fn = "encodeCommitAsBitcode" /\ args \in {<<h>> : h \in DigestInputs}
       \/ fn = "constructVmStarkVk"
            /\ args \in {<<a>> : a \in AggVkSamples \X CommitSamples \X CommitSamples}
       \/ fn = "buildProofBytes" /\ args \in {<<j>> : j \in ProofJsonSamples}

\* The argument of the next call
NextArg == args[Len(rets) + 1]

Pending(name) == fn = name /\ Len(rets) < Len(args)

CallHexToBytes ==
    /\ Pending("hexToBytes")
    /\ rets' = Append(rets, hexToBytes(NextArg))
    /\ UNCHANGED <<fn, args, proc, fs, _zstdSimple>>

CallCommitHexToCanonicalU32s ==
    /\ Pending("commitHexToCanonicalU32s")
    /\ rets' = Append(rets, commitHexToCanonicalU32s(NextArg))
    /\ UNCHANGED <<fn, args, proc, fs, _zstdSimple>>

CallToMonty ==
    /\ Pending("toMonty")
    /\ rets' = Append(rets, Ok(toMonty(NextArg)))
    /\ UNCHANGED <<fn, args, proc, fs, _zstdSimple>>

CallBitcodeEncodeU32 ==
    /\ Pending("bitcodeEncodeU32")
    /\ rets' = Append(rets, Ok(bitcodeEncodeU32(NextArg)))
    /\ UNCHANGED <<fn, args, proc, fs, _zstdSimple>>

CallEncodeCommitAsBitcode ==
    /\ Pending("encodeCommitAsBitcode")
    /\ rets' = Append(rets, encodeCommitAsBitcode(NextArg))
    /\ UNCHANGED <<fn, args, proc, fs, _zstdSimple>>

CallConstructVmStarkVk ==
    /\ Pending("constructVmStarkVk")
    /\ rets' = Append(rets, constructVmStarkVk(NextArg[1], NextArg[2], NextArg[3]))
    /\ UNCHANGED <<fn, args, proc, fs, _zstdSimple>>

CallBuildProofBytes ==
    /\ Pending("buildProofBytes")
    /\ rets' = Append(rets, buildProofBytes(NextArg))
    /\ UNCHANGED <<fn, args, proc, fs, _zstdSimple>>

Next ==
    \/ CallHexToBytes
    \/ CallCommitHexToCanonicalU32s
    \/ CallToMonty
    \/ CallBitcodeEncodeU32
    \/ CallEncodeCommitAsBitcode
    \/ CallConstructVmStarkVk
    \/ CallBuildProofBytes

Spec == Init /\ [][Next]_vars

-----------------------------------------------------------------------------
(* The test harness test-verify.mjs: files, console and external programs  *)

\* A file that does not exist, and a file holding data
Absent == [exists |-> FALSE, data |-> << >>]
File(data) == [exists |-> TRUE, data |-> data]

\* The text of a JSON file: text that JSON.parse rejects, and the text of an
\* object
Garbage == [parses |-> FALSE, obj |-> << >>]
Json(obj) == [parses |-> TRUE, obj |-> obj]

\* readFileSync(path)
readFileSync(path) ==
    IF fs[path].exists THEN Ok(fs[path].data) ELSE Throw("ENOENT")

\* JSON.parse(readFileSync(path, "utf8"))
ReadJson(path) ==
    LET text == readFileSync(path)
    IN IF text.tag = "throw" THEN text
       ELSE IF text.val.parses THEN Ok(text.val.obj) ELSE Throw("SyntaxError")

\* The output of the zstd program for an input file: a frame that starts with
\* the magic number 28 B5 2F FD and from which the input is recovered
Zstd(data) == <<40, 181, 47, 253>> \o data

\* function buildProofBytes(proofJson) of test-verify.mjs
TestVerifyBuildProofBytes(proofJson) ==
    LET proofBin == TestVerifyHexToBytes(proofJson.proof)
        upvBin == TestVerifyHexToBytes(proofJson.user_public_values)
    IN IF proofBin.tag = "throw" THEN proofBin
       ELSE IF upvBin.tag = "throw" THEN upvBin
       ELSE LET n == Len(proofBin.val) + Len(upvBin.val)
                combined0 == [k \in 1..n |-> 0]
                combined1 == TypedArraySet(combined0, proofBin.val, 0)
                combined2 == TypedArraySet(combined1, upvBin.val, Len(proofBin.val))
            IN Ok(combined2)

\* A run of main() that has not started: its locals are not yet assigned
NoCommitJson == [app_exe_commit |-> Undefined, app_vm_commit |-> Undefined]
NoProofJson ==
    [proof |-> Undefined, user_public_values |-> Undefined, version |-> Undefined]

InitialRun ==
    [pc |-> "load",
     aggVk |-> << >>, commitJson |-> NoCommitJson, proofJson |-> NoProofJson,
     vk |-> << >>, combined |-> << >>, compressedProof |-> << >>,
     out |-> << >>,       \* the lines written to the console
     events |-> << >>,    \* the starts and ends of the verifications
     exitCode |-> -1]     \* the exit status, once pc is "exited"

\* console.log(line), console.error(line)
Log(p, line) == [p EXCEPT !.out = Append(@, line)]

\* main().catch(e => { console.error("Fatal:", e); process.exit(1); })
Fatal(p) == [Log(p, "Fatal:") EXCEPT !.pc = "exited", !.exitCode = 1]

\* A call of an external program or module starts or ends; proof and vk are
\* the arguments of verify_stark, and for the native verifier the paths given
\* as --proof and --app-commit on its command line
Event(p, name, proof, vk) ==
    [p EXCEPT !.events = Append(@, [name |-> name, proof |-> proof, vk |-> vk])]

\* Variant: the portable path comes before the native verification.
Following_PortableFirst(pc) ==
    CASE pc = "load" -> "build"
      [] pc = "build" -> "zstdWrite"
      [] pc = "zstdWrite" -> "zstdExec"
      [] pc = "zstdExec" -> "zstdRead"
      [] pc = "zstdRead" -> "zstdUnlinkIn"
      [] pc = "zstdUnlinkIn" -> "zstdUnlinkOut"
      [] pc = "zstdUnlinkOut" -> "loadWasm"
      [] pc = "loadWasm" -> "loadWasmWait"
      [] pc = "loadWasmWait" -> "verify"
      [] pc = "verify" -> "verifyWait"
      [] pc = "verifyWait" -> "native"
      [] pc = "native" -> "nativeWait"
      [] pc = "nativeWait" -> "done"
      [] pc = "done" -> "exited"

\* The place in main() that follows a place when the statement there
\* completes normally: main() is straight-line code
Following(pc) ==
    CASE pc = "load" -> "build"                  \* lines 163-170
      [] pc = "build" -> "zstdWrite"             \* lines 173-174
      [] pc = "zstdWrite" -> "zstdExec"          \* line 136
      [] pc = "zstdExec" -> "zstdRead"           \* line 137
      [] pc = "zstdRead" -> "zstdUnlinkIn"       \* line 138
      [] pc = "zstdUnlinkIn" -> "zstdUnlinkOut"  \* line 139, first unlink
      [] pc = "zstdUnlinkOut" -> "native"        \* line 139, second unlink
      [] pc = "native" -> "nativeWait"           \* line 185, execSync called
      [] pc = "nativeWait" -> "loadWasm"         \* lines 185-195
      [] pc = "loadWasm" -> "loadWasmWait"       \* line 204, loadWasm called
      [] pc = "loadWasmWait" -> "verify"         \* lines 204-205
      [] pc = "verify" -> "verifyWait"           \* line 213, verify_stark called
      [] pc = "verifyWait" -> "done"             \* lines 213-220
      [] pc = "done" -> "exited"                 \* lines 223-226

\* The statement at p.pc has completed normally
Advance(p) == [p EXCEPT !.pc = Following(p.pc)]

-----------------------------------------------------------------------------
(* The steps of main(). Each takes the state p of a run to its next state.  *)

\* 1. Load inputs (lines 163-170)
LoadInputsStep(p) ==
    LET aggVk == readFileSync("AGG_VK_PATH")
        commitJson == ReadJson("COMMIT_PATH")
        proofJson == ReadJson("PROOF_PATH")
    IN IF aggVk.tag = "throw" \/ commitJson.tag = "throw" \/ proofJson.tag = "throw"
       THEN Fatal(p)
       ELSE Advance(Log(Log(Log(Log(
                [p EXCEPT !.aggVk = aggVk.val,
                          !.commitJson = commitJson.val,
                          !.proofJson = proofJson.val],
                "  agg_stark.vk:"), "  exe commit:"), "  vm  commit:"),
                "  proof version:"))

\* 2. Build VK and proof (lines 173-174)
BuildStep(p) ==
    LET vk == TestVerifyConstructVmStarkVk(p.aggVk, p.commitJson.app_exe_commit,
                                           p.commitJson.app_vm_commit)
        combined == TestVerifyBuildProofBytes(p.proofJson)
    IN IF vk.tag = "throw" THEN Fatal(p)
       ELSE IF combined.tag = "throw" THEN Fatal(p)
       ELSE Advance([p EXCEPT !.vk = vk.val, !.combined = combined.val])

\* zstdCompress, line 138: const compressed = new Uint8Array(readFileSync(tmpOut))
ZstdReadStep(p) ==
    LET compressed == readFileSync("tmpOut")
    IN IF compressed.tag = "throw" THEN Fatal(p)
       ELSE Advance([p EXCEPT !.compressedProof = compressed.val])

\* lines 177-178, after zstdCompress has returned
AfterCompress(p) == Log(Log(p, "  VK size:"), "  proof:")

\* 3. Native verification starts (lines 181-185): execSync blocks the run
NativeBeginStep(p) ==
    Advance(Event(Log(p, "  NATIVE: cargo openvm verify stark"),
                  "native.start", <<"PROOF_PATH">>, <<"COMMIT_PATH">>))

\* Variant: a failure of the native verifier ends the run.
NativeEndStep_FailureIsFatal(p, outcome) ==
    IF outcome = "pass"
    THEN Advance(Log(Log(Event(p, "native.end", << >>, << >>),
                         "  out"), "  NATIVE: PASS"))
    ELSE Fatal(Event(p, "native.end", << >>, << >>))

\* Native verification ends (lines 185-195): the subprocess has exited with
\* status 0 ("pass"), with another status ("nonzero"), or was killed at the
\* 120 s timeout ("timeout"); execSync throws in the last two cases
NativeEndStep(p, outcome) ==
    IF outcome = "pass"
    THEN Advance(Log(Log(Event(p, "native.end", << >>, << >>),
                         "  out"), "  NATIVE: PASS"))
    ELSE Advance(Log(Log(Event(p, "native.end", << >>, << >>),
                         "  stderr"), "  NATIVE: FAIL"))

\* 4. WASM verification: the module load starts (lines 198-204)
LoadWasmBeginStep(p) ==
    Advance(Event(Log(p, "  WASM: @ethproofs/openvm-wasm-stark-verifier"),
                  "load.start", << >>, << >>))

\* Variant: a failed load is logged and the run goes on.
LoadWasmEndStep_FailureGoesOn(p, loaded) ==
    IF loaded
    THEN Advance(Log(Event(p, "load.end", << >>, << >>), "  WASM module loaded OK"))
    ELSE Advance(Log(Event(p, "load.end", << >>, << >>), "  WASM load failed:"))

\* The module load ends (lines 204-209): loadWasm() has resolved or rejected
LoadWasmEndStep(p, loaded) ==
    IF loaded
    THEN Advance(Log(Event(p, "load.end", << >>, << >>), "  WASM module loaded OK"))
    ELSE [Log(Event(p, "load.end", << >>, << >>), "  WASM load failed:")
            EXCEPT !.pc = "exited", !.exitCode = 1]

\* Variant: verify_stark is given the proof bytes before compression.
VerifyBeginStep_Uncompressed(p) == Advance(Event(p, "verify.start", p.combined, p.vk))

\* verify_stark is called (line 213)
VerifyBeginStep(p) == Advance(Event(p, "verify.start", p.compressedProof, p.vk))

\* Variant: an exception of verify_stark is not caught.
VerifyEndStep_ThrowIsFatal(p, result) ==
    IF result = "throw"
    THEN Fatal(Event(p, "verify.end", << >>, << >>))
    ELSE Advance(Log(Log(Event(p, "verify.end", << >>, << >>),
                         IF result = "true" THEN "  verify_stark returned: true"
                                            ELSE "  verify_stark returned: false"),
                     IF result = "true" THEN "  WASM: PASS" ELSE "  WASM: FAIL"))

\* verify_stark ends (lines 213-220): it has returned true or false, or thrown
VerifyEndStep(p, result) ==
    IF result = "throw"
    THEN Advance(Log(Log(Event(p, "verify.end", << >>, << >>),
                         "  ERROR:"), "  WASM: FAIL"))
    ELSE Advance(Log(Log(Event(p, "verify.end", << >>, << >>),
                         IF result = "true" THEN "  verify_stark returned: true"
                                            ELSE "  verify_stark returned: false"),
                     IF result = "true" THEN "  WASM: PASS" ELSE "  WASM: FAIL"))

\* Variant: a disagreement of the two outcomes is an error.
DoneStep_MismatchIsError(p) ==
    LET nativePass == \E k \in 1..Len(p.out) : p.out[k] = "  NATIVE: PASS"
        wasmPass == \E k \in 1..Len(p.out) : p.out[k] = "  WASM: PASS"
    IN IF nativePass = wasmPass
       THEN [Advance(Log(p, "  DONE")) EXCEPT !.exitCode = 0]
       ELSE Fatal(p)

\* Variant: the summary is printed twice.
DoneStep_Twice(p) == [Advance(Log(Log(p, "  DONE"), "  DONE")) EXCEPT !.exitCode = 0]

\* 5. Summary (lines 223-226): main() returns and the process exits with 0
DoneStep(p) == [Advance(Log(p, "  DONE")) EXCEPT !.exitCode = 0]


-----------------------------------------------------------------------------
(* The state machine of the harness: each run of main() takes its steps in  *)
(* turn; the runs are separate processes that share the file system.        *)

\* The artifacts a run reads
CommitFieldSamples ==
    {Undefined, [k \in 1..64 |-> IF k = 64 THEN "1" ELSE "0"], [k \in 1..64 |-> "f"]}

AggVkFiles == {Absent, File(<< >>), File(<<0, 255, 4>>)}

CommitFiles ==
    {Absent, File(Garbage)}
    \cup {File(Json(j)) :
            j \in [app_exe_commit : CommitFieldSamples,
                   app_vm_commit : CommitFieldSamples]}

ProofFiles ==
    {Absent, File(Garbage)}
    \cup {File(Json(j)) :
            j \in [proof : {Undefined, <<"a", "b">>},
                   user_public_values : {Undefined, <<"0", "x", "0", "1">>},
                   version : {Undefined, <<"v", "1">>}]}

\* The zstd program on the PATH of the run: installed or not
ZstdPrograms == {Absent, File(<< >>)}

Files(aggVk, commit, proof, zstd) ==
    [path \in {"AGG_VK_PATH", "COMMIT_PATH", "PROOF_PATH", "tmpIn", "tmpOut",
               "zstd"} |->
        CASE path = "AGG_VK_PATH" -> aggVk
          [] path = "COMMIT_PATH" -> commit
          [] path = "PROOF_PATH" -> proof
          [] path = "zstd" -> zstd
          [] OTHER -> Absent]

\* Artifacts that are all present, with all their fields
WellFormedFiles ==
    {Files(File(<<0, 255, 4>>),
           File(Json([app_exe_commit |-> [k \in 1..64 |-> IF k = 64 THEN "1" ELSE "0"],
                      app_vm_commit |-> [k \in 1..64 |-> "f"]])),
           File(Json([proof |-> h, user_public_values |-> <<"0", "x", "0", "1">>,
                      version |-> <<"v", "1">>])),
           File(<< >>)) :
        h \in {<<"a", "b">>, << >>}}

\* One run of the harness
HarnessInit ==
    /\ fn = "main" /\ args = << >> /\ rets = << >>
    /\ proc = <<InitialRun>>
    /\ _zstdSimple = NullRef
    /\ fs \in {Files(a, c, p, z) : a \in AggVkFiles, c \in CommitFiles,
                                  p \in ProofFiles, z \in ZstdPrograms}

\* Two runs of the harness at the same time, on the same artifacts
ConcurrentInit ==
    /\ fn = "main" /\ args = << >> /\ rets = << >>
    /\ proc = <<InitialRun, InitialRun>>
    /\ _zstdSimple = NullRef
    /\ fs \in WellFormedFiles

At(r, pc) == r \in DOMAIN proc /\ proc[r].pc = pc

LoadInputs(r) ==
    /\ At(r, "load")
    /\ proc' = [proc EXCEPT ![r] = LoadInputsStep(proc[r])]
    /\ UNCHANGED <<fn, args, rets, fs, _zstdSimple>>

BuildVkAndProof(r) ==
    /\ At(r, "build")
    /\ proc' = [proc EXCEPT ![r] = BuildStep(proc[r])]
    /\ UNCHANGED <<fn, args, rets, fs, _zstdSimple>>

\* zstdCompress, line 136: writeFileSync(tmpIn, data)
ZstdWriteInput(r) ==
    /\ At(r, "zstdWrite")
    /\ fs' = [fs EXCEPT !["tmpIn"] = File(proc[r].combined)]
    /\ proc' = [proc EXCEPT ![r] = Advance(proc[r])]
    /\ UNCHANGED <<fn, args, rets, _zstdSimple>>

\* zstdCompress, line 137: execSync(`zstd -f -3 "${tmpIn}" -o "${tmpOut}"`);
\* execSync throws when the zstd program is not installed, and when zstd
\* exits with status 1 because its input file does not exist
ZstdExec(r) ==
    /\ At(r, "zstdExec")
    /\ IF fs["zstd"].exists /\ fs["tmpIn"].exists
       THEN /\ fs' = [fs EXCEPT !["tmpOut"] = File(Zstd(fs["tmpIn"].data))]
            /\ proc' = [proc EXCEPT ![r] = Advance(proc[r])]
       ELSE /\ fs' = fs
            /\ proc' = [proc EXCEPT ![r] = Fatal(proc[r])]
    /\ UNCHANGED <<fn, args, rets, _zstdSimple>>

ZstdReadOutput(r) ==
    /\ At(r, "zstdRead")
    /\ proc' = [proc EXCEPT ![r] = ZstdReadStep(proc[r])]
    /\ UNCHANGED <<fn, args, rets, fs, _zstdSimple>>

\* zstdCompress, line 139: try { unlinkSync(tmpIn); unlinkSync(tmpOut); } catch {}
\* unlinkSync throws when the file does not exist, and the catch then skips
\* the second unlinkSync
ZstdUnlinkIn(r) ==
    /\ At(r, "zstdUnlinkIn")
    /\ IF fs["tmpIn"].exists
       THEN /\ fs' = [fs EXCEPT !["tmpIn"] = Absent]
            /\ proc' = [proc EXCEPT ![r] = Advance(proc[r])]
       ELSE /\ fs' = fs
            /\ proc' = [proc EXCEPT ![r] =
                            AfterCompress([proc[r] EXCEPT
                                !.pc = Following("zstdUnlinkOut")])]
    /\ UNCHANGED <<fn, args, rets, _zstdSimple>>

ZstdUnlinkOut(r) ==
    /\ At(r, "zstdUnlinkOut")
    /\ fs' = [fs EXCEPT !["tmpOut"] = Absent]
    /\ proc' = [proc EXCEPT ![r] = AfterCompress(Advance(proc[r]))]
    /\ UNCHANGED <<fn, args, rets, _zstdSimple>>

NativeBegin(r) ==
    /\ At(r, "native")
    /\ proc' = [proc EXCEPT ![r] = NativeBeginStep(proc[r])]
    /\ UNCHANGED <<fn, args, rets, fs, _zstdSimple>>

NativeEnd(r) ==
    /\ At(r, "nativeWait")
    /\ \E outcome \in {"pass", "nonzero", "timeout"} :
            proc' = [proc EXCEPT ![r] = NativeEndStep(proc[r], outcome)]
    /\ UNCHANGED <<fn, args, rets, fs, _zstdSimple>>

LoadWasmBegin(r) ==
    /\ At(r, "loadWasm")
    /\ proc' = [proc EXCEPT ![r] = LoadWasmBeginStep(proc[r])]
    /\ UNCHANGED <<fn, args, rets, fs, _zstdSimple>>

LoadWasmEnd(r) ==
    /\ At(r, "loadWasmWait")
    /\ \E loaded \in BOOLEAN :
            proc' = [proc EXCEPT ![r] = LoadWasmEndStep(proc[r], loaded)]
    /\ UNCHANGED <<fn, args, rets, fs, _zstdSimple>>

VerifyBegin(r) ==
    /\ At(r, "verify")
    /\ proc' = [proc EXCEPT ![r] = VerifyBeginStep(proc[r])]
    /\ UNCHANGED <<fn, args, rets, fs, _zstdSimple>>

VerifyEnd(r) ==
    /\ At(r, "verifyWait")
    /\ \E result \in {"true", "false", "throw"} :
            proc' = [proc EXCEPT ![r] = VerifyEndStep(proc[r], result)]
    /\ UNCHANGED <<fn, args, rets, fs, _zstdSimple>>

ReportDone(r) ==
    /\ At(r, "done")
    /\ proc' = [proc EXCEPT ![r] = DoneStep(proc[r])]
    /\ UNCHANGED <<fn, args, rets, fs, _zstdSimple>>

HarnessNext ==
    \E r \in DOMAIN proc :
        \/ LoadInputs(r)
        \/ BuildVkAndProof(r)
        \/ ZstdWriteInput(r)
        \/ ZstdExec(r)
        \/ ZstdReadOutput(r)
        \/ ZstdUnlinkIn(r)
        \/ ZstdUnlinkOut(r)
        \/ NativeBegin(r)
        \/ NativeEnd(r)
        \/ LoadWasmBegin(r)
        \/ LoadWasmEnd(r)
        \/ VerifyBegin(r)
        \/ VerifyEnd(r)
        \/ ReportDone(r)

\* One run. Every statement of main() completes, so a run that can take a
\* step takes it: the synchronous calls return (the native verifier is
\* killed after 120 s) and the awaited promise of loadWasm() settles.
Harness == HarnessInit /\ [][HarnessNext]_vars /\ WF_vars(HarnessNext)

\* Two runs at the same time, in any interleaving of their steps
Concurrent == ConcurrentInit /\ [][HarnessNext]_vars

-----------------------------------------------------------------------------
(* The zstd section of proof-utils.js: the module variable _zstdSimple, the *)
(* async function initZstd and the functions that use the compressor.       *)

NotInitializedError == "zstd not initialized - call initZstd() first"
CompressionFailedError == "zstd compression failed"

\* _zstdSimple.compress(data, 3): the compressed bytes, or null when the
\* codec reports an error
Compress(data, fails) ==
    IF fails THEN [kind |-> "null", bytes |-> << >>]
    ELSE [kind |-> "object", bytes |-> Zstd(data)]

\* Variant: the compressor is used without the check that it is set.
zstdCompress_NoInitCheck(data, fails) ==
    IF Falsy(_zstdSimple) THEN Throw("TypeError")
    ELSE LET result == Compress(data, fails)
         IN IF Falsy(result) THEN Throw(CompressionFailedError) ELSE Ok(result.bytes)

\* export function zstdCompress(data); fails tells whether compress returns
\* null
zstdCompress(data, fails) ==
    IF Falsy(_zstdSimple) THEN Throw(NotInitializedError)
    ELSE LET result == Compress(data, fails)
         IN IF Falsy(result) THEN Throw(CompressionFailedError) ELSE Ok(result.bytes)

\* export function isZstdReady()
isZstdReady == _zstdSimple # NullRef

\* export function processProof(proofJson)
processProof(proofJson, fails) ==
    LET Rest(built) ==
            IF built.tag = "throw" THEN built
            ELSE LET Result(compressedProof) ==
                        IF compressedProof.tag = "throw" THEN compressedProof
                        ELSE Ok([compressedProof |-> compressedProof.val,
                                 userPublicValuesHex |->
                                    built.val.userPublicValuesHex])
                 IN Result(zstdCompress(built.val.proofBytes, fails))
    IN Rest(buildProofBytes(proofJson))

\* A call of initZstd: where it is, and the compressor it has created
InitZstdCall(pc) == [pc |-> pc, created |-> NullRef]

\* Variant: initZstd has no check that the compressor is already set.
InitZstdStart_NoGuard(simple) ==
    [call |-> InitZstdCall("import"), simple |-> simple]

\* Variant: initZstd clears the compressor before it initializes again.
InitZstdStart_Resets(simple) ==
    [call |-> InitZstdCall("import"), simple |-> NullRef]

\* initZstd() up to its first await (lines 165-166): the call returns at once
\* when the compressor is set, and else waits for import('zstd-codec').
\* The result is the call and the value of _zstdSimple it leaves.
InitZstdStart(simple) ==
    IF ~Falsy(simple)
    THEN [call |-> InitZstdCall("resolved"), simple |-> simple]
    ELSE [call |-> InitZstdCall("import"), simple |-> simple]

\* The import has settled (lines 166-168): when it is fulfilled the call
\* hands its callback to ZstdCodec.run, when it is rejected the call rejects
InitZstdImported(call, fulfilled) ==
    [call EXCEPT !.pc = IF fulfilled THEN "run" ELSE "rejected"]

\* The callback given to ZstdCodec.run by call r (lines 168-171):
\* _zstdSimple = new zstd.Simple(); resolve()
InitZstdCallback(call, r) ==
    [call |-> [call EXCEPT !.pc = "resolved", !.created = ObjectRef(r)],
     simple |-> ObjectRef(r)]

-----------------------------------------------------------------------------
(* The state machine of the zstd section: calls of initZstd overlap at     *)
(* their await points; the other functions run to completion when called.  *)

\* How many calls of initZstd, and of the other functions, a behaviour makes
MaxInitCalls == 3
MaxSyncCalls == 1

\* The data given to zstdCompress and the proof JSON given to processProof
CompressData == {<< >>, <<1, 2>>}

ProcessProofJsons ==
    {[proof |-> <<"a", "b">>, user_public_values |-> <<"0", "x", "0", "1">>],
     [proof |-> Undefined, user_public_values |-> <<"0", "1">>]}

ZstdModuleInit ==
    /\ fn = "zstd" /\ args = << >> /\ rets = << >>
    /\ proc = << >>
    /\ fs = << >>
    /\ _zstdSimple = NullRef

\* The calls of initZstd that have not settled
PendingInits == {r \in DOMAIN proc : proc[r].pc \in {"import", "run"}}

\* The completion of a call of zstdCompress, isZstdReady or processProof,
\* with the state it was made in
Completed(name, fails, ret) ==
    [name |-> name, simple |-> _zstdSimple, pending |-> Cardinality(PendingInits),
     fails |-> fails, ret |-> ret]

CallInitZstd ==
    /\ Len(proc) < MaxInitCalls
    /\ proc' = Append(proc, InitZstdStart(_zstdSimple).call)
    /\ _zstdSimple' = InitZstdStart(_zstdSimple).simple
    /\ UNCHANGED <<fn, args, rets, fs>>

ImportSettles(r) ==
    /\ At(r, "import")
    /\ \E fulfilled \in BOOLEAN :
            proc' = [proc EXCEPT ![r] = InitZstdImported(proc[r], fulfilled)]
    /\ UNCHANGED <<fn, args, rets, fs, _zstdSimple>>

RunCallback(r) ==
    /\ At(r, "run")
    /\ proc' = [proc EXCEPT ![r] = InitZstdCallback(proc[r], r).call]
    /\ _zstdSimple' = InitZstdCallback(proc[r], r).simple
    /\ UNCHANGED <<fn, args, rets, fs>>

CallZstdCompress ==
    /\ Len(rets) < MaxSyncCalls
    /\ \E data \in CompressData, fails \in BOOLEAN :
            rets' = Append(rets, Completed("zstdCompress", fails,
                                           zstdCompress(data, fails)))
    /\ UNCHANGED <<fn, args, proc, fs, _zstdSimple>>

CallIsZstdReady ==
    /\ Len(rets) < MaxSyncCalls
    /\ rets' = Append(rets, Completed("isZstdReady", FALSE, Ok(<<isZstdReady>>)))
    /\ UNCHANGED <<fn, args, proc, fs, _zstdSimple>>

CallProcessProof ==
    /\ Len(rets) < MaxSyncCalls
    /\ \E proofJson \in ProcessProofJsons, fails \in BOOLEAN :
            rets' = Append(rets, Completed("processProof", fails,
                                           processProof(proofJson, fails)))
    /\ UNCHANGED <<fn, args, proc, fs, _zstdSimple>>

ZstdModuleNext ==
    \/ CallInitZstd
    \/ \E r \in DOMAIN proc : ImportSettles(r)
    \/ \E r \in DOMAIN proc : RunCallback(r)
    \/ CallZstdCompress
    \/ CallIsZstdReady
    \/ CallProcessProof

ZstdModule == ZstdModuleInit /\ [][ZstdModuleNext]_vars

-----------------------------------------------------------------------------
(* The two encoding layers side by side: the page (proof-utils.js) and the  *)
(* harness (test-verify.mjs) are each handed the same input, in either      *)
(* order.                                                                   *)

\* Commitment strings: absent, empty, the bare prefix, short, of odd length,
\* with a character that is no hex digit, a digest with and without the
\* prefix, and a digest followed by one more byte
LayerCommits ==
    {Undefined, << >>, <<"0", "x">>, <<"a", "b">>, <<"1">>, <<"g", "1">>,
     DigestHex([k \in 1..32 |-> (38 * k) % 256]),
     Prefixed(DigestHex([k \in 1..32 |-> 255])),
     DigestHex([k \in 1..32 |-> (38 * k) % 256]) \o <<"0", "1">>}

\* The hex fields of a proof JSON, the malformed ones included
LayerProofHex == ProofHexSamples \cup {<<"a">>, <<"g", "1">>, <<"0", "x">>}

LayersInit ==
    /\ rets = << >>
    /\ proc = << >>
    /\ fs = << >>
    /\ _zstdSimple = NullRef
    /\ \/ /\ fn = "constructVmStarkVk"
          /\ args \in {<<a>> : a \in {<< >>, <<0, 255, 4>>}
                                     \X LayerCommits \X LayerCommits}
       \/ /\ fn = "buildProofBytes"
          /\ args \in {<<j>> : j \in [proof : LayerProofHex,
                                      user_public_values : LayerProofHex]}

\* The layer has not yet been handed the input
NotCalled(name, layer) ==
    /\ fn = name
    /\ \A k \in 1..Len(rets) : rets[k].layer # layer

LayerResult(layer, ret) == [layer |-> layer, ret |-> ret]

BrowserConstructVmStarkVk ==
    /\ NotCalled("constructVmStarkVk", "proof-utils.js")
    /\ rets' = Append(rets, LayerResult("proof-utils.js",
                    constructVmStarkVk(args[1][1], args[1][2], args[1][3])))
    /\ UNCHANGED <<fn, args, proc, fs, _zstdSimple>>

HarnessConstructVmStarkVk ==
    /\ NotCalled("constructVmStarkVk", "test-verify.mjs")
    /\ rets' = Append(rets, LayerResult("test-verify.mjs",
                    TestVerifyConstructVmStarkVk(args[1][1], args[1][2], args[1][3])))
    /\ UNCHANGED <<fn, args, proc, fs, _zstdSimple>>

BrowserBuildProofBytes ==
    /\ NotCalled("buildProofBytes", "proof-utils.js")
    /\ rets' = Append(rets, LayerResult("proof-utils.js", buildProofBytes(args[1])))
    /\ UNCHANGED <<fn, args, proc, fs, _zstdSimple>>

HarnessBuildProofBytes ==
    /\ NotCalled("buildProofBytes", "test-verify.mjs")
    /\ rets' = Append(rets, LayerResult("test-verify.mjs",
                    TestVerifyBuildProofBytes(args[1])))
    /\ UNCHANGED <<fn, args, proc, fs, _zstdSimple>>

LayersNext ==
    \/ BrowserConstructVmStarkVk
    \/ HarnessConstructVmStarkVk
    \/ BrowserBuildProofBytes
    \/ HarnessBuildProofBytes

Layers == LayersInit /\ [][LayersNext]_vars

-----------------------------------------------------------------------------
(* scripts/teardown.sh: a run of the script with its working directory, its *)
(* standard input and the outcome of each ssh command                       *)

\* Bound of the input: every standard input of at most this many characters
MaxAnswerLen == 4

\* The characters typed: the letters of the answers, a blank, the backslash
\* and the end of a line
AnswerAlphabet == {"y", "Y", "n", " ", "\\", "\n"}

\* What the script reads: the characters on standard input before its end
StdinSamples == UNION {[1..n -> AnswerAlphabet] : n \in 0..MaxAnswerLen}

\* web/conf/.env: a file of assignments, and one holding a command that fails
EnvFiles == {File(<<"SSH_HOST=host">>), File(<<"SSH_HOST=host", "false">>)}

\* The exit status of ssh when the connection or the remote command fails
SshFailed == 255

TeardownRun(pc) ==
    [pc |-> pc, confirm |-> << >>, status |-> 0, ssh |-> << >>, out |-> << >>]

TeardownInit ==
    /\ fn = "teardown.sh"
    /\ args \in {<<stdin>> : stdin \in StdinSamples}
    /\ rets = << >>
    /\ proc = <<TeardownRun("makefile")>>
    /\ \E makefile \in {Absent, File(<< >>)}, env \in EnvFiles \cup {Absent} :
            fs = [p \in {"Makefile", "web/conf/.env"} |->
                    IF p = "Makefile" THEN makefile ELSE env]
    /\ _zstdSimple = NullRef

\* echo
Echo(p, line) == [p EXCEPT !.out = Append(@, line)]

\* exit, and the end of the script under set -e when a command fails
Exit(p, status) == [p EXCEPT !.pc = "exit", !.status = status]

RECURSIVE ReadScan(_, _)
\* read without -r takes characters up to the end of a line: a backslash is
\* removed and quotes the character after it, a backslash before the end of
\* a line joins the next line. st is [i, quoted, word]; the result tells
\* whether the input ended before the line did.
ReadScan(stdin, st) ==
    IF st.i > Len(stdin) THEN [eof |-> TRUE, word |-> st.word]
    ELSE IF st.quoted
    THEN ReadScan(stdin,
            [i |-> st.i + 1, quoted |-> FALSE,
             word |-> IF stdin[st.i] = "\n" THEN st.word
                      ELSE Append(st.word, [ch |-> stdin[st.i], quoted |-> TRUE])])
    ELSE IF stdin[st.i] = "\\"
    THEN ReadScan(stdin, [i |-> st.i + 1, quoted |-> TRUE, word |-> st.word])
    ELSE IF stdin[st.i] = "\n" THEN [eof |-> FALSE, word |-> st.word]
    ELSE ReadScan(stdin,
            [i |-> st.i + 1, quoted |-> FALSE,
             word |-> Append(st.word, [ch |-> stdin[st.i], quoted |-> FALSE])])

\* The value read assigns to its only variable: the line without the IFS
\* white space at its ends that no backslash quotes
IfsTrim(word) ==
    LET kept == {k \in 1..Len(word) : word[k].quoted \/ word[k].ch # " "}
        first == CHOOSE k \in kept : \A j \in kept : k <= j
        last == CHOOSE k \in kept : \A j \in kept : k >= j
    IN IF kept = {} THEN << >>
       ELSE [k \in 1..(last - first + 1) |-> word[first + k - 1].ch]

\* lines 5-8: if [ ! -f "Makefile" ]
CheckMakefile(r) ==
    /\ proc[r].pc = "makefile"
    /\ proc' = [proc EXCEPT ![r] =
            IF fs["Makefile"].exists THEN [@ EXCEPT !.pc = "env"]
            ELSE Exit(Echo(@, "Error: This script must be run from the repository root"), 1)]
    /\ UNCHANGED <<fn, args, rets, fs, _zstdSimple>>

\* lines 10-13: if [ ! -f "web/conf/.env" ]
CheckEnv(r) ==
    /\ proc[r].pc = "env"
    /\ proc' = [proc EXCEPT ![r] =
            IF fs["web/conf/.env"].exists THEN [@ EXCEPT !.pc = "source"]
            ELSE Exit(Echo(@, ".env file not found at web/conf/.env"), 1)]
    /\ UNCHANGED <<fn, args, rets, fs, _zstdSimple>>

\* lines 14-34: source web/conf/.env, the ssh destination and options, and
\* the announcement
SourceEnv(r) ==
    /\ proc[r].pc = "source"
    /\ proc' = [proc EXCEPT ![r] =
            IF \E k \in 1..Len(fs["web/conf/.env"].data) :
                    fs["web/conf/.env"].data[k] = "false"
            THEN Exit(@, 1)
            ELSE [Echo(Echo(@, "Tearing down Cardano ZKVMs on"), "This will:")
                    EXCEPT !.pc = "read"]]
    /\ UNCHANGED <<fn, args, rets, fs, _zstdSimple>>

\* line 35: read -p "Continue? [y/N] " confirm
ReadConfirm(r) ==
    /\ proc[r].pc = "read"
    /\ LET line == ReadScan(args[1], [i |-> 1, quoted |-> FALSE, word |-> << >>])
       IN proc' = [proc EXCEPT ![r] =
            IF line.eof
            THEN Exit([@ EXCEPT !.confirm = IfsTrim(line.word)], 1)
            ELSE [@ EXCEPT !.confirm = IfsTrim(line.word), !.pc = "test"]]
    /\ UNCHANGED <<fn, args, rets, fs, _zstdSimple>>

\* Variant: the default answer is yes, only n and N abort.
TestConfirm_DefaultYes(r) ==
    /\ proc[r].pc = "test"
    /\ proc' = [proc EXCEPT ![r] =
            IF proc[r].confirm = <<"n">> \/ proc[r].confirm = <<"N">>
            THEN Exit(Echo(@, "Aborted."), 0)
            ELSE [@ EXCEPT !.pc = "stop"]]
    /\ UNCHANGED <<fn, args, rets, fs, _zstdSimple>>

\* lines 36-39: if [ "$confirm" != "y" ] && [ "$confirm" != "Y" ]
TestConfirm(r) ==
    /\ proc[r].pc = "test"
    /\ proc' = [proc EXCEPT ![r] =
            IF proc[r].confirm # <<"y">> /\ proc[r].confirm # <<"Y">>
            THEN Exit(Echo(@, "Aborted."), 0)
            ELSE [@ EXCEPT !.pc = "stop"]]
    /\ UNCHANGED <<fn, args, rets, fs, _zstdSimple>>

\* An echo and the ssh command after it: the command is run, and when it
\* fails the script ends with its status
SshStep(p, line, command, ok, next) ==
    LET ran == [Echo(p, line) EXCEPT !.ssh = Append(@, command)]
    IN IF ok THEN [ran EXCEPT !.pc = next] ELSE Exit(ran, SshFailed)

\* lines 41-42
StopServices(r) ==
    /\ proc[r].pc = "stop"
    /\ \E ok \in BOOLEAN :
        proc' = [proc EXCEPT ![r] =
            SshStep(@, "Stopping services...", "systemctl stop cardano-zkvms",
                    ok, "caddy")]
    /\ UNCHANGED <<fn, args, rets, fs, _zstdSimple>>

\* lines 44-45
RemoveCaddyfile(r) ==
    /\ proc[r].pc = "caddy"
    /\ \E ok \in BOOLEAN :
        proc' = [proc EXCEPT ![r] =
            SshStep(@, "Removing Caddyfile...", "rm -f /etc/caddy/Caddyfile",
                    ok, "path")]
    /\ UNCHANGED <<fn, args, rets, fs, _zstdSimple>>

\* lines 47-48
RemoveDeployment(r) ==
    /\ proc[r].pc = "path"
    /\ \E ok \in BOOLEAN :
        proc' = [proc EXCEPT ![r] =
            SshStep(@, "Removing deployment directory...", "rm -rf $REMOTE_PATH",
                    ok, "keys")]
    /\ UNCHANGED <<fn, args, rets, fs, _zstdSimple>>

\* lines 50-54
RemoveKeys(r) ==
    /\ proc[r].pc = "keys"
    /\ \E ok \in BOOLEAN :
        proc' = [proc EXCEPT ![r] =
            LET p == SshStep(@, "Removing OpenVM keys...", "rm -rf ~/.openvm",
                             ok, "complete")
            IN IF p.pc = "complete" THEN Exit(Echo(p, "Teardown complete."), 0)
               ELSE p]
    /\ UNCHANGED <<fn, args, rets, fs, _zstdSimple>>

TeardownNext ==
    \/ \E r \in DOMAIN proc : CheckMakefile(r)
    \/ \E r \in DOMAIN proc : CheckEnv(r)
    \/ \E r \in DOMAIN proc : SourceEnv(r)
    \/ \E r \in DOMAIN proc : ReadConfirm(r)
    \/ \E r \in DOMAIN proc : TestConfirm(r)
    \/ \E r \in DOMAIN proc : StopServices(r)
    \/ \E r \in DOMAIN proc : RemoveCaddyfile(r)
    \/ \E r \in DOMAIN proc : RemoveDeployment(r)
    \/ \E r \in DOMAIN proc : RemoveKeys(r)

Teardown == TeardownInit /\ [][TeardownNext]_vars

-----------------------------------------------------------------------------
(* Vocabulary of the claims *)

\* The call numbered k of the script has returned or thrown
Returned(name, k) == fn = name /\ Len(rets) >= k

\* The big-endian integer value of the 32 bytes written as 64 hex digits
DigestValue(hex) ==
    BigNorm([k \in 1..32 |->
        16 * DigitValue(hex[2 * (33 - k) - 1]) + DigitValue(hex[2 * (33 - k)])])

\* P^i as a BigInt
PowP(i) == FromLimbs([k \in 1..(i + 1) |-> IF k = i + 1 THEN 1 ELSE 0])

\* v / P^i by i divisions by P
QuotPowP(v, i) ==
    LET Quot[k \in Nat, q \in Seq(Nat)] ==
            IF k = 0 THEN q ELSE Quot[k - 1, BigDiv(q, BABYBEAR_P)]
    IN Quot[i, v]

\* The largest multiple of P^8 in a 32-byte value: (2^256 - 1) div P^8
MaxOverflow == BigMod(QuotPowP([k \in 1..32 |-> 255], DIGEST_LIMBS), BABYBEAR_P)

-----------------------------------------------------------------------------
(* C1 *)

\* C1, as claimed: for every 32-byte digest d, the sum over i in 0..7 of
\* limb[i] * P^i, for the 8 limbs that commitHexToCanonicalU32s returns, is
\* the big-endian integer value of d.
C1_RoundTripEveryDigest ==
    Returned("commitHexToCanonicalU32s", 1) =>
        /\ rets[1].tag = "ok"
        /\ FromLimbs(rets[1].val) = DigestValue(args[1])

\* C1, amended: for every 32-byte digest d the sum of limb[i] * P^i is
\* d - (d div P^8) * P^8, that is d modulo P^8; it is d itself exactly for the
\* digests below P^8.
C1_RoundTripModuloP8 ==
    Returned("commitHexToCanonicalU32s", 1) =>
        LET d == DigestValue(args[1])
            m == BigMod(QuotPowP(d, DIGEST_LIMBS), BABYBEAR_P)
        IN /\ rets[1].tag = "ok"
           /\ m <= MaxOverflow
           /\ FromLimbs(Append(rets[1].val, m)) = d
           /\ BigLess(d, PowP(DIGEST_LIMBS)) <=> FromLimbs(rets[1].val) = d

\* A digest of 31 significant bytes below P^8 has been decomposed and its
\* limbs give it back.
C1_Witness ==
    /\ Returned("commitHexToCanonicalU32s", 1)
    /\ Len(DigestValue(args[1])) = 31
    /\ BigLess(DigestValue(args[1]), PowP(DIGEST_LIMBS))
    /\ FromLimbs(rets[1].val) = DigestValue(args[1])

-----------------------------------------------------------------------------
(* C2 *)

\* A string that is no even-length sequence of hex digits after the optional
\* 0x prefix
MalformedHex(hex) ==
    /\ hex # Undefined
    /\ \/ Len(StripPrefix0x(hex)) % 2 = 1
       \/ \E k \in 1..Len(StripPrefix0x(hex)) : DigitValue(StripPrefix0x(hex)[k]) < 0

\* C2: hexToBytes called on a string of odd length or with a character that
\* is no hex digit fails with a MalformedHex error; it returns no byte array.
C2_MalformedHexFails ==
    (Returned("hexToBytes", 1) /\ MalformedHex(args[1])) =>
        rets[1] = Throw("MalformedHex")

-----------------------------------------------------------------------------
(* C3 *)

\* C3: for every 32-byte digest, zero and the values of at least P^8
\* included, commitHexToCanonicalU32s returns exactly 8 values, each in [0, P).
C3_EightCanonicalLimbs ==
    Returned("commitHexToCanonicalU32s", 1) =>
        /\ rets[1].tag = "ok"
        /\ Len(rets[1].val) = 8
        /\ \A i \in 1..Len(rets[1].val) :
                rets[1].val[i] >= 0 /\ rets[1].val[i] < BABYBEAR_P

\* A digest of at least P^8 has been decomposed into 8 limbs.
C3_Witness ==
    /\ Returned("commitHexToCanonicalU32s", 1)
    /\ ~BigLess(DigestValue(args[1]), PowP(DIGEST_LIMBS))
    /\ Len(rets[1].val) = 8

-----------------------------------------------------------------------------
(* C4 *)

\* C4: for the big-endian integer v of the digest and every i in 0..7, limb i
\* is (v div P^i) mod P: with q = v div P^i, that is q * P^i <= v < (q + 1) * P^i,
\* limb i is the remainder of q by P, that is q = q' * P + limb i for some q'
\* and 0 <= limb i < P. The digest 00..01 gives the limbs [1,0,0,0,0,0,0,0].
C4_BasePLeastSignificantFirst ==
    Returned("commitHexToCanonicalU32s", 1) =>
        LET v == DigestValue(args[1])
            limbs == rets[1].val
        IN /\ rets[1].tag = "ok"
           /\ \A i \in 0..7 :
                LET q == QuotPowP(v, i)
                    qq == QuotPowP(v, i + 1)
                IN /\ ~BigLess(v, BigMul(q, PowP(i)))
                   /\ BigLess(v, BigMul(BigAdd(q, <<1>>), PowP(i)))
                   /\ limbs[i + 1] >= 0 /\ limbs[i + 1] < BABYBEAR_P
                   /\ q = BigAdd(BigMul(qq, BABYBEAR_P_BIG), BigInt(limbs[i + 1]))
           /\ v = <<1>> => limbs = <<1, 0, 0, 0, 0, 0, 0, 0>>

\* The digest 00..01 has been decomposed into [1,0,0,0,0,0,0,0].
C4_Witness ==
    /\ Returned("commitHexToCanonicalU32s", 1)
    /\ args[1] = [k \in 1..64 |-> IF k = 64 THEN "1" ELSE "0"]
    /\ rets[1].val = <<1, 0, 0, 0, 0, 0, 0, 0>>

-----------------------------------------------------------------------------
(* C5 *)

\* C5: bitcodeEncodeU32 takes exactly one branch for every v in [0, 2^32):
\* tag 0x04 and 1 payload byte when v <= 255, tag 0x02 and 2 payload bytes
\* when 255 < v <= 65535, tag 0x00 and 4 payload bytes when v > 65535; 255,
\* 256, 65535 and 65536 get the tags 0x04, 0x02, 0x02 and 0x00; no other tag
\* or length is produced.
C5_TagPartition ==
    Returned("bitcodeEncodeU32", 1) =>
        LET hi == args[1][1]
            lo == args[1][2]
            out == rets[1].val
        IN /\ rets[1].tag = "ok"
           /\ <<out[1], Len(out)>> \in {<<4, 2>>, <<2, 3>>, <<0, 5>>}
           /\ (hi = 0 /\ lo <= 255) <=> out[1] = 4
           /\ (hi = 0 /\ lo > 255) <=> out[1] = 2
           /\ hi > 0 <=> out[1] = 0
           /\ args[1] = <<0, 255>> => out[1] = 4
           /\ args[1] = <<0, 256>> => out[1] = 2
           /\ args[1] = <<0, 65535>> => out[1] = 2
           /\ args[1] = <<1, 0>> => out[1] = 0

\* 65536 has been encoded with tag 0x00 and four payload bytes.
C5_Witness ==
    /\ Returned("bitcodeEncodeU32", 1)
    /\ args[1] = <<1, 0>>
    /\ rets[1].val[1] = 0
    /\ Len(rets[1].val) = 5

-----------------------------------------------------------------------------
(* C6 *)

\* C6: for every v in [0, 2^32), v >= 2^31 included, the payload bytes after
\* the tag, read as a little-endian unsigned integer, are v, and the payload
\* has the smallest of the widths 1, 2, 4 that holds v; 1 encodes to
\* [0x04,0x01], 300 to [0x02,0x2C,0x01], 70000 to [0x00,0x70,0x11,0x01,0x00].
C6_PayloadRoundTrip ==
    Returned("bitcodeEncodeU32", 1) =>
        LET hi == args[1][1]
            lo == args[1][2]
            out == rets[1].val
            width == Len(out) - 1
            Byte(k) == IF k <= width THEN out[k + 1] ELSE 0
        IN /\ rets[1].tag = "ok"
           /\ width \in {1, 2, 4}
           /\ \A k \in 1..width : Byte(k) \in 0..255
           /\ Byte(1) + 256 * Byte(2) = lo
           /\ Byte(3) + 256 * Byte(4) = hi
           /\ width = 1 <=> (hi = 0 /\ lo < 256)
           /\ width = 2 <=> (hi = 0 /\ lo >= 256)
           /\ args[1] = <<0, 1>> => out = <<4, 1>>
           /\ args[1] = <<0, 300>> => out = <<2, 44, 1>>
           /\ args[1] = <<1, 4464>> => out = <<0, 112, 17, 1, 0>>

\* A value of at least 2^31 whose four bytes differ has been encoded.
C6_Witness ==
    /\ Returned("bitcodeEncodeU32", 1)
    /\ args[1] = <<35243, 52719>>
    /\ rets[1].val = <<0, 239, 205, 171, 137>>

-----------------------------------------------------------------------------
(* C7 *)

\* c * 2^32 as a BigInt: the digits of c, four digits up
TimesR(c) == IF c = 0 THEN << >> ELSE <<0, 0, 0, 0>> \o BigInt(c)

\* C7: for every canonical c in [0, P), toMonty(c) is the exact integer
\* (c * 2^32) mod P: it is in [0, P) and c * 2^32 is a multiple of P plus it.
C7_ToMontyExact ==
    \A k \in 1..Len(rets) :
        (fn = "toMonty" /\ args[k] < BABYBEAR_P) =>
            LET m == rets[k].val
                q == BigDiv(TimesR(args[k]), BABYBEAR_P)
            IN /\ rets[k].tag = "ok"
               /\ m >= 0 /\ m < BABYBEAR_P
               /\ BigAdd(BigMul(q, BABYBEAR_P_BIG), BigInt(m)) = TimesR(args[k])

\* toMonty has converted P - 1, whose product with 2^32 is above 2^53.
C7_Witness ==
    /\ Returned("toMonty", 1)
    /\ args[1] = BABYBEAR_P - 1
    /\ rets[1].val = 1744830467

-----------------------------------------------------------------------------
(* C8 *)

\* C8: toMonty is injective on [0, P): two calls with distinct canonical
\* values return distinct values.
C8_ToMontyInjective ==
    (/\ Returned("toMonty", 2)
     /\ args[1] < BABYBEAR_P /\ args[2] < BABYBEAR_P
     /\ args[1] # args[2])
        => rets[1].val # rets[2].val

\* toMonty has converted two distinct canonical values, 0 and P - 1.
C8_Witness ==
    /\ Returned("toMonty", 2)
    /\ args = <<0, BABYBEAR_P - 1>>
    /\ rets[1].val # rets[2].val

-----------------------------------------------------------------------------
(* C9 *)

\* C9: toMonty called with a value of at least P fails; it does not return
\* the conversion of the value reduced modulo P.
C9_RejectsNonCanonical ==
    \A k \in 1..Len(rets) :
        (fn = "toMonty" /\ args[k] >= BABYBEAR_P) => rets[k].tag = "throw"

-----------------------------------------------------------------------------
(* C10 *)

\* C10: encodeCommitAsBitcode(digest) is the concatenation, limb 0 first, of
\* bitcodeEncodeU32(toMonty(limb i)) for the 8 canonical limbs of the digest
\* and nothing else; each limb gives 2, 3 or 5 bytes and the whole has
\* between 16 and 40 bytes.
C10_ConcatenationInLimbOrder ==
    Returned("encodeCommitAsBitcode", 1) =>
        LET limbs == commitHexToCanonicalU32s(args[1]).val
            Enc(i) == bitcodeEncodeU32(Num(toMonty(limbs[i])))
            out == rets[1].val
        IN /\ rets[1].tag = "ok"
           /\ Len(limbs) = 8
           /\ out = Enc(1) \o Enc(2) \o Enc(3) \o Enc(4)
                    \o Enc(5) \o Enc(6) \o Enc(7) \o Enc(8)
           /\ \A i \in 1..8 : Len(Enc(i)) \in {2, 3, 5}
           /\ Len(out) >= 16 /\ Len(out) <= 40

\* The digest 00..01 has been encoded: 5 bytes for limb 0 and 2 bytes for each
\* of the 7 zero limbs.
C10_Witness ==
    /\ Returned("encodeCommitAsBitcode", 1)
    /\ args[1] = [k \in 1..64 |-> IF k = 64 THEN "1" ELSE "0"]
    /\ rets[1].val = <<0, 254, 255, 255, 15, 4, 0, 4, 0, 4, 0, 4, 0, 4, 0, 4, 0, 4, 0>>

-----------------------------------------------------------------------------
(* C11 *)

\* C11: constructVmStarkVk(baseVK, commitA, commitB) is baseVK followed by
\* the encoding of commitA followed by the encoding of commitB: for a base VK
\* of any length N, the empty one included, the first N bytes are baseVK, the
\* next L1 bytes the encoding of the exe commitment, the last L2 bytes the
\* encoding of the vm commitment, and the length is N + L1 + L2.
C11_VkIsBaseThenExeThenVm ==
    (/\ Returned("constructVmStarkVk", 1)
     /\ args[1][2] # Undefined /\ args[1][3] # Undefined) =>
        LET baseVK == args[1][1]
            encA == encodeCommitAsBitcode(args[1][2]).val
            encB == encodeCommitAsBitcode(args[1][3]).val
            vk == rets[1].val
            N == Len(baseVK)
            L1 == Len(encA)
            L2 == Len(encB)
        IN /\ rets[1].tag = "ok"
           /\ Len(vk) = N + L1 + L2
           /\ \A k \in 1..N : vk[k] = baseVK[k]
           /\ \A k \in 1..L1 : vk[N + k] = encA[k]
           /\ \A k \in 1..L2 : vk[N + L1 + k] = encB[k]

\* A key has been built from a base VK of three bytes and two commitments
\* whose encodings differ in length and content.
C11_Witness ==
    /\ Returned("constructVmStarkVk", 1)
    /\ args[1][1] = <<0, 255, 4>>
    /\ args[1][2] = [k \in 1..64 |-> IF k = 64 THEN "1" ELSE "0"]
    /\ args[1][3] = [k \in 1..64 |-> "f"]
    /\ Len(rets[1].val) = 3 + 19 + 40

-----------------------------------------------------------------------------
(* C12 *)

-----------------------------------------------------------------------------
(* Vocabulary of the claims about the harness *)

\* The line has been written to the console by the run p
Logged(p, line) == \E k \in 1..Len(p.out) : p.out[k] = line

\* How many times the line has been written to the console by the run p
TimesLogged(p, line) == Cardinality({k \in 1..Len(p.out) : p.out[k] = line})

\* The names of the events of the run p, in the order they happened
EventNames(p) == [k \in 1..Len(p.events) |-> p.events[k].name]

HasEvent(p, name) == \E k \in 1..Len(p.events) : p.events[k].name = name

IsPrefix(s, t) == Len(s) <= Len(t) /\ \A k \in 1..Len(s) : s[k] = t[k]

\* The two verification paths of a run, in the order of main()
StepOrder ==
    <<"native.start", "native.end", "load.start", "load.end",
      "verify.start", "verify.end">>

-----------------------------------------------------------------------------
(* C13 *)

\* C13: in every run the steps happen in the fixed order load artifacts,
\* build VK and compressed proof, native verification, portable-module load,
\* portable verification, Done. The starts and ends of the calls form a
\* prefix of native.start, native.end, load.start, load.end, verify.start,
\* verify.end (so the native attempt has ended before the load starts and the
\* two paths are never in progress together); the native verification starts
\* only after the artifacts are loaded and the VK and the compressed proof
\* are built; and Done is reported only after the portable verification ended.
C13_StepsInFixedOrder ==
    \A r \in DOMAIN proc :
        LET p == proc[r]
        IN /\ IsPrefix(EventNames(p), StepOrder)
           /\ Logged(p, "  VK size:") => Logged(p, "  agg_stark.vk:")
           /\ p.events # << >> =>
                /\ Logged(p, "  VK size:")
                /\ p.pc \notin {"load", "build", "zstdWrite", "zstdExec",
                                "zstdRead", "zstdUnlinkIn", "zstdUnlinkOut"}
           /\ Logged(p, "  DONE") => EventNames(p) = StepOrder

\* A run has taken all its steps and reported Done
C13_Witness ==
    \E r \in DOMAIN proc :
        /\ EventNames(proc[r]) = StepOrder
        /\ Logged(proc[r], "  DONE")
        /\ proc[r].pc = "exited"

-----------------------------------------------------------------------------
(* C14 *)

\* C14: a failure of the native verifier (non-zero exit status or the 120 s
\* timeout) is recorded as NATIVE: FAIL and is not fatal. Once the native
\* attempt has ended, exactly one of NATIVE: PASS and NATIVE: FAIL is logged,
\* the failure output goes with NATIVE: FAIL, and no fatal error is reported;
\* a run that has ended after NATIVE: FAIL has gone on to load the portable
\* module, and if the module loaded it has called verify_stark and reported
\* Done with exit status 0.
C14_NativeFailureIsNotFatal ==
    \A r \in DOMAIN proc :
        LET p == proc[r]
        IN /\ HasEvent(p, "native.end") =>
                /\ Logged(p, "  NATIVE: PASS") # Logged(p, "  NATIVE: FAIL")
                /\ Logged(p, "  stderr") = Logged(p, "  NATIVE: FAIL")
                /\ ~Logged(p, "Fatal:")
           /\ (Logged(p, "  NATIVE: FAIL") /\ p.pc = "exited") =>
                /\ HasEvent(p, "load.end")
                /\ Logged(p, "  WASM module loaded OK") =>
                      /\ HasEvent(p, "verify.end")
                      /\ Logged(p, "  DONE")
                      /\ p.exitCode = 0

\* The native verifier has failed and the run has verified with the portable
\* module and reported Done
C14_Witness ==
    \E r \in DOMAIN proc :
        /\ proc[r].pc = "exited"
        /\ Logged(proc[r], "  NATIVE: FAIL")
        /\ HasEvent(proc[r], "verify.end")
        /\ Logged(proc[r], "  DONE")

\* C14 as stated: after NATIVE: FAIL the run always calls the portable
\* verifier and reaches Done.
C14_NativeFailAlwaysReachesDone ==
    \A r \in DOMAIN proc :
        (Logged(proc[r], "  NATIVE: FAIL") /\ proc[r].pc = "exited") =>
            /\ HasEvent(proc[r], "verify.start")
            /\ Logged(proc[r], "  DONE")

-----------------------------------------------------------------------------
(* C15 *)

\* C15: an exception while loading the portable verifier module is fatal.
\* Once the load has failed the run has ended with exit status 1,
\* verify_stark has not been called, neither WASM: PASS nor WASM: FAIL is
\* logged, and Done is not reported.
C15_LoadFailureIsFatal ==
    \A r \in DOMAIN proc :
        LET p == proc[r]
        IN Logged(p, "  WASM load failed:") =>
            /\ p.pc = "exited"
            /\ p.exitCode = 1
            /\ ~HasEvent(p, "verify.start")
            /\ ~Logged(p, "  WASM: PASS")
            /\ ~Logged(p, "  WASM: FAIL")
            /\ ~Logged(p, "  DONE")

\* The module load has failed after the native verifier passed
C15_Witness ==
    \E r \in DOMAIN proc :
        /\ Logged(proc[r], "  WASM load failed:")
        /\ Logged(proc[r], "  NATIVE: PASS")
        /\ proc[r].exitCode = 1

-----------------------------------------------------------------------------
(* C16 *)

\* C16: once the portable module is loaded, the portable outcome is PASS
\* exactly when verify_stark returns true without throwing; a false return or
\* an exception is recorded as WASM: FAIL and is not fatal. Once the call has
\* ended, exactly one of "returned: true", "returned: false" and "ERROR:" is
\* logged, WASM: PASS is logged exactly in the first case and WASM: FAIL in
\* the other two, no fatal error is reported, and a run that has ended has
\* reported Done with exit status 0.
C16_PassIffVerifyStarkReturnsTrue ==
    \A r \in DOMAIN proc :
        LET p == proc[r]
            returnedTrue == Logged(p, "  verify_stark returned: true")
            returnedFalse == Logged(p, "  verify_stark returned: false")
            threw == Logged(p, "  ERROR:")
        IN /\ ~HasEvent(p, "verify.end") =>
                ~Logged(p, "  WASM: PASS") /\ ~Logged(p, "  WASM: FAIL")
           /\ HasEvent(p, "verify.end") =>
                /\ Cardinality({b \in {<<1, returnedTrue>>, <<2, returnedFalse>>,
                                       <<3, threw>>} : b[2]}) = 1
                /\ Logged(p, "  WASM: PASS") = returnedTrue
                /\ Logged(p, "  WASM: FAIL") = (returnedFalse \/ threw)
                /\ ~Logged(p, "Fatal:")
                /\ p.pc = "exited" => Logged(p, "  DONE") /\ p.exitCode = 0

\* verify_stark has thrown and the run has reported WASM: FAIL and Done
C16_Witness ==
    \E r \in DOMAIN proc :
        /\ Logged(proc[r], "  ERROR:")
        /\ Logged(proc[r], "  WASM: FAIL")
        /\ Logged(proc[r], "  DONE")
        /\ proc[r].pc = "exited"

-----------------------------------------------------------------------------
(* C17 *)

\* The places of main() in the order of the code, the exit last
Places ==
    <<"load", "build", "zstdWrite", "zstdExec", "zstdRead", "zstdUnlinkIn",
      "zstdUnlinkOut", "native", "nativeWait", "loadWasm", "loadWasmWait",
      "verify", "verifyWait", "done", "exited">>

Rank(pc) == CHOOSE k \in 1..Len(Places) : Places[k] = pc

\* C17: Done is reported at most once per run, every run ends, and a run
\* that has ended has reported Done exactly once if its exit status is 0 and
\* never if it was aborted by a fatal error (exit status 1). A run is at a
\* place of main() or has exited, every step of a run takes it to a later
\* place (so a run takes at most 14 steps and then has exited), and only the
\* step from the summary reports Done.
C17_DoneOnceOrAborted ==
    /\ [](\A r \in DOMAIN proc :
            LET p == proc[r]
            IN /\ \E k \in 1..Len(Places) : Places[k] = p.pc
               /\ TimesLogged(p, "  DONE") <= 1
               /\ Logged(p, "  DONE") => p.pc = "exited"
               /\ p.pc = "exited" =>
                    /\ p.exitCode \in {0, 1}
                    /\ (p.exitCode = 0) = (TimesLogged(p, "  DONE") = 1))
    /\ [][\A r \in DOMAIN proc :
            proc'[r] # proc[r] =>
                /\ Rank(proc'[r].pc) > Rank(proc[r].pc)
                /\ Logged(proc'[r], "  DONE") => proc[r].pc = "done"]_vars

\* A run has ended with exit status 0 having reported Done once
C17_Witness ==
    \E r \in DOMAIN proc :
        /\ proc[r].pc = "exited"
        /\ proc[r].exitCode = 0
        /\ TimesLogged(proc[r], "  DONE") = 1

\* C17 as stated: every run reports Done exactly once, so a run that has
\* ended has reported it.
C17_EveryRunReportsDone ==
    \A r \in DOMAIN proc :
        proc[r].pc = "exited" => TimesLogged(proc[r], "  DONE") = 1

-----------------------------------------------------------------------------
(* C18 *)

\* The JSON file at the path is missing, is not JSON, or lacks a field
JsonLacks(path, fields) ==
    IF ~fs[path].exists THEN TRUE
    ELSE IF ~fs[path].data.parses THEN TRUE
    ELSE \E f \in fields : fs[path].data.obj[f] = Undefined

\* A required artifact is missing or unreadable
ArtifactMissing ==
    \/ ~fs["AGG_VK_PATH"].exists
    \/ JsonLacks("COMMIT_PATH", {"app_exe_commit", "app_vm_commit"})
    \/ JsonLacks("PROOF_PATH", {"proof", "user_public_values", "version"})

\* C18: if a required artifact is missing or unreadable (the base VK file,
\* the commitment JSON or one of its two commit fields, the proof JSON or one
\* of its fields proof, user_public_values, version), the run is fatal with a
\* non-zero exit, before the native verifier is invoked and before the
\* portable verifier is loaded: the run never starts a verification, never
\* reports Done, and has exit status 1 once it has ended.
C18_MissingArtifactIsFatal ==
    ArtifactMissing =>
        \A r \in DOMAIN proc :
            /\ proc[r].events = << >>
            /\ ~Logged(proc[r], "  DONE")
            /\ proc[r].pc = "exited" => proc[r].exitCode = 1

-----------------------------------------------------------------------------
(* C19 *)

\* The outcomes a run has reported for the two paths
NativeOutcomes(p) ==
    TimesLogged(p, "  NATIVE: PASS") + TimesLogged(p, "  NATIVE: FAIL")

WasmOutcomes(p) ==
    TimesLogged(p, "  WASM: PASS") + TimesLogged(p, "  WASM: FAIL")

\* C19: both outcomes are reported as data and a disagreement is never an
\* error. Once both verifications have ended, whatever the combination of
\* native and portable outcome, the run has reported exactly one native and
\* exactly one portable outcome and no fatal error; it is on its way to the
\* summary, and when it has ended it has reported Done with exit status 0.
C19_BothOutcomesReported ==
    \A r \in DOMAIN proc :
        LET p == proc[r]
        IN HasEvent(p, "verify.end") =>
            /\ NativeOutcomes(p) = 1
            /\ WasmOutcomes(p) = 1
            /\ ~Logged(p, "Fatal:")
            /\ p.pc \in {"done", "exited"}
            /\ p.pc = "exited" => Logged(p, "  DONE") /\ p.exitCode = 0

\* The two paths disagree (native fails, portable passes) and the run has
\* reported both and ended with Done and exit status 0
C19_Witness ==
    \E r \in DOMAIN proc :
        /\ Logged(proc[r], "  NATIVE: FAIL")
        /\ Logged(proc[r], "  WASM: PASS")
        /\ Logged(proc[r], "  DONE")
        /\ proc[r].exitCode = 0

-----------------------------------------------------------------------------
(* C20 *)

\* C20: runs share no mutable state. When two runs execute at the same time
\* on well-formed artifacts, in any interleaving of their steps, the
\* compressed proof each run passes to verify_stark is the compression of
\* that run's own proof bytes, and no run is aborted by a fatal error.
C20_RunsShareNoState ==
    \A r \in DOMAIN proc :
        LET p == proc[r]
        IN /\ ~Logged(p, "Fatal:")
           /\ \A k \in 1..Len(p.events) :
                p.events[k].name = "verify.start" =>
                    p.events[k].proof = Zstd(p.combined)

-----------------------------------------------------------------------------
(* C21 *)

\* The compression pass of the run p has failed: the VK and the proof bytes
\* were built (a VK holds at least the two encoded commitments), no
\* compressed proof was obtained, and an exception has reached main().catch
CompressionFailed(p) ==
    /\ p.vk # << >>
    /\ p.compressedProof = << >>
    /\ Logged(p, "Fatal:")

\* C21: a failure of the compression step (for example the zstd program is
\* not installed) is fatal to the verification attempt but not to the
\* process: the process does not terminate because compression failed.
C21_CompressionFailureKeepsProcess ==
    \A r \in DOMAIN proc :
        CompressionFailed(proc[r]) => proc[r].pc # "exited"

-----------------------------------------------------------------------------
(* C22 *)

\* The compressors created so far, one by each call that ran its callback
CreatedInstances ==
    {proc[r].created : r \in {q \in DOMAIN proc : proc[q].created # NullRef}}

\* C22: initZstd is safe to call again after a first initialization has
\* completed. A call made while the compressor is set returns at once: it is
\* resolved in the step that makes it, it waits for no import and hands no
\* callback to the codec, it creates no compressor, and _zstdSimple (the
\* instance zstdCompress uses) is the same after the call as before.
C22_InitAfterInitIsNoOp ==
    [][(Len(proc') = Len(proc) + 1 /\ ~Falsy(_zstdSimple)) =>
            /\ _zstdSimple' = _zstdSimple
            /\ proc'[Len(proc')].pc = "resolved"
            /\ proc'[Len(proc')].created = NullRef
            /\ \A r \in DOMAIN proc : proc'[r] = proc[r]]_vars

\* The first call has completed and created the compressor in use; a second
\* call made after that is resolved and has created nothing
C22_Witness ==
    /\ Len(proc) = 2
    /\ proc[1].pc = "resolved" /\ proc[1].created = ObjectRef(1)
    /\ proc[2].pc = "resolved" /\ proc[2].created = NullRef
    /\ _zstdSimple = ObjectRef(1)
    /\ CreatedInstances = {ObjectRef(1)}

-----------------------------------------------------------------------------
(* C23 *)

\* The call rets[k] has thrown the error e
Threw(k, e) == rets[k].ret.tag = "throw" /\ rets[k].ret.val = e

\* C23: zstdCompress and processProof never return data while the compressor
\* is not initialized. A call made while _zstdSimple is unset throws: it is
\* the 'zstd not initialized' error for zstdCompress, and for processProof
\* too unless the proof JSON lacks a hex field, where hexToBytes has thrown a
\* TypeError before. A call of zstdCompress made while the compressor is set
\* throws 'zstd compression failed' when compress returns null, and returns
\* the compressed bytes otherwise.
C23_NoDataWithoutCompressor ==
    \A k \in 1..Len(rets) :
        /\ (rets[k].name = "zstdCompress" /\ Falsy(rets[k].simple)) =>
                Threw(k, NotInitializedError)
        /\ (rets[k].name = "processProof" /\ Falsy(rets[k].simple)) =>
                /\ rets[k].ret.tag = "throw"
                /\ rets[k].ret.val \in {NotInitializedError, "TypeError"}
        /\ (rets[k].name = "zstdCompress" /\ ~Falsy(rets[k].simple)) =>
                IF rets[k].fails THEN Threw(k, CompressionFailedError)
                ELSE rets[k].ret.tag = "ok"

\* zstdCompress has thrown 'zstd not initialized' while a call of initZstd
\* had been made and had not completed
C23_Witness ==
    \E k \in 1..Len(rets) :
        /\ rets[k].name = "zstdCompress"
        /\ rets[k].pending > 0
        /\ Threw(k, NotInitializedError)

\* C23 as stated: every call of zstdCompress or processProof made while the
\* compressor is unset throws the 'zstd not initialized' error.
C23_AlwaysNotInitializedError ==
    \A k \in 1..Len(rets) :
        (rets[k].name \in {"zstdCompress", "processProof"} /\ Falsy(rets[k].simple)) =>
            Threw(k, NotInitializedError)

-----------------------------------------------------------------------------
(* C24 *)

\* Both calls of a script on a value without and with the 0x prefix have
\* returned
PrefixPairDone(name) ==
    /\ fn = name
    /\ Len(args) = 2 /\ Len(rets) = 2
    /\ args \in PrefixPairs[name]

\* C24: an optional 0x prefix does not change the result of decoding. For
\* every even-length hex string h, hexToBytes("0x" + h) returns the bytes
\* hexToBytes(h) returns; encodeCommitAsBitcode, constructVmStarkVk and
\* buildProofBytes return the same bytes with and without the prefix on
\* their hex strings; and buildProofBytes returns userPublicValuesHex
\* without the prefix.
C24_PrefixDoesNotChangeDecoding ==
    /\ \A name \in {"hexToBytes", "encodeCommitAsBitcode", "constructVmStarkVk"} :
            PrefixPairDone(name) => rets[1].tag = "ok" /\ rets[2] = rets[1]
    /\ PrefixPairDone("buildProofBytes") =>
            /\ rets[1].tag = "ok" /\ rets[2].tag = "ok"
            /\ rets[2].val.proofBytes = rets[1].val.proofBytes
            /\ rets[1].val.userPublicValuesHex = args[1].user_public_values
            /\ rets[2].val.userPublicValuesHex = args[1].user_public_values

\* "0x01Ff" and "01Ff" have both been decoded to [0x01, 0xff]
C24_Witness ==
    /\ PrefixPairDone("hexToBytes")
    /\ args[1] = <<"0", "1", "F", "F">>
    /\ args[2] = <<"0", "x", "0", "1", "F", "F">>
    /\ rets[2] = Ok(<<1, 255>>)

-----------------------------------------------------------------------------
(* C25 is about the two verifiers themselves, which are not part of this   *)
(* repository: the harness takes their outcomes as they come.              *)

-----------------------------------------------------------------------------
(* C26 *)

\* The events of the run p with the name
EventsNamed(p, name) == {k \in 1..Len(p.events) : p.events[k].name = name}

\* C26: in every run that calls the portable verifier, verify_stark is
\* called exactly once; its first argument is the compressed form of the
\* proof bytes followed by the public-values bytes of the proof JSON the run
\* loaded (never these bytes themselves), and its second argument is the VK
\* built in the same run from the base VK and the two commitments the run
\* loaded. The native verifier is given only the paths of the proof file and
\* of the commitment file.
C26_VerifyStarkArguments ==
    \A r \in DOMAIN proc :
        LET p == proc[r]
        IN /\ Cardinality(EventsNamed(p, "verify.start")) <= 1
           /\ HasEvent(p, "verify.end") =>
                Cardinality(EventsNamed(p, "verify.start")) = 1
           /\ \A k \in EventsNamed(p, "verify.start") :
                /\ p.aggVk = fs["AGG_VK_PATH"].data
                /\ p.commitJson = fs["COMMIT_PATH"].data.obj
                /\ p.proofJson = fs["PROOF_PATH"].data.obj
                /\ p.events[k].proof =
                        Zstd(hexToBytes(p.proofJson.proof).val
                             \o hexToBytes(p.proofJson.user_public_values).val)
                /\ p.events[k].proof # p.combined
                /\ p.events[k].vk =
                        p.aggVk \o encodeCommitAsBitcode(p.commitJson.app_exe_commit).val
                                \o encodeCommitAsBitcode(p.commitJson.app_vm_commit).val
           /\ \A k \in EventsNamed(p, "native.start") :
                /\ p.events[k].proof = <<"PROOF_PATH">>
                /\ p.events[k].vk = <<"COMMIT_PATH">>

\* verify_stark has been called with a compressed proof of 6 bytes (the
\* frame of the 2 proof bytes) and a VK that extends the 3-byte base VK
C26_Witness ==
    \E r \in DOMAIN proc :
        \E k \in EventsNamed(proc[r], "verify.start") :
            /\ proc[r].combined = <<171, 1>>
            /\ proc[r].events[k].proof = <<40, 181, 47, 253, 171, 1>>
            /\ proc[r].aggVk = <<0, 255, 4>>
            /\ Len(proc[r].events[k].vk) > 3

-----------------------------------------------------------------------------
(* C27 *)

\* C27: the compressor is created at most once under overlapping
\* initialization. For any number of initZstd calls started before the first
\* one completes, in any interleaving of their await points, at most one
\* zstd Simple instance is ever created, and the stored instance, once set,
\* is that one instance (it is never replaced by another).
C27_CompressorCreatedOnce ==
    /\ Cardinality(CreatedInstances) <= 1
    /\ ~Falsy(_zstdSimple) => CreatedInstances = {_zstdSimple}

-----------------------------------------------------------------------------
(* C28 *)

\* zstdCompress, called now, throws the 'zstd not initialized' error
ThrowsNotInitialized ==
    \A data \in CompressData, fails \in BOOLEAN :
        /\ zstdCompress(data, fails).tag = "throw"
        /\ zstdCompress(data, fails).val = NotInitializedError

\* C28: readiness of the compressor is monotone and consistent.
\* isZstdReady() is false as long as no call of initZstd has been made, in
\* every state it is true exactly when zstdCompress does not throw the 'zstd
\* not initialized' error (as the calls made show, too), it becomes true
\* only in a step in which the callback of an initZstd call completes, and
\* once true it is true in every later state.
C28_ReadinessMonotoneAndConsistent ==
    /\ [](/\ proc = << >> => ~isZstdReady
          /\ isZstdReady = ~ThrowsNotInitialized
          /\ \A k \in 1..Len(rets) :
                /\ rets[k].name = "isZstdReady" =>
                        rets[k].ret.val = <<~Falsy(rets[k].simple)>>
                /\ rets[k].name = "zstdCompress" =>
                        Threw(k, NotInitializedError) = Falsy(rets[k].simple))
    /\ [][/\ isZstdReady => isZstdReady'
          /\ (~isZstdReady /\ isZstdReady') =>
                \E r \in DOMAIN proc :
                    /\ proc[r].pc = "run"
                    /\ proc'[r].pc = "resolved"
                    /\ _zstdSimple' = proc'[r].created]_vars

\* isZstdReady() has returned true after an initialization completed, and
\* the compressor is still set
C28_Witness ==
    /\ isZstdReady
    /\ \E k \in 1..Len(rets) :
            rets[k].name = "isZstdReady" /\ rets[k].ret.val = <<TRUE>>
    /\ \E r \in DOMAIN proc : proc[r].created = _zstdSimple

-----------------------------------------------------------------------------
(* C29 *)

\* The result the layer has returned for the input
ResultOf(layer) ==
    rets[CHOOSE k \in 1..Len(rets) : rets[k].layer = layer].ret

BothLayersCalled(name) == fn = name /\ Len(rets) = 2

\* C29: the page's and the harness's encoding layers are equivalent. Handed
\* the same base VK and commitment strings, constructVmStarkVk of
\* proof-utils.js and of test-verify.mjs return the same bytes or throw the
\* same error; handed the same proof JSON, the proofBytes of buildProofBytes
\* of proof-utils.js is the array buildProofBytes of test-verify.mjs returns,
\* or both throw the same error: on malformed, short and over-long hex, too.
C29_LayersEquivalent ==
    LET Same(browser, harness, bytes(_)) ==
            /\ browser.tag = harness.tag
            /\ browser.tag = "throw" => browser.val = harness.val
            /\ browser.tag = "ok" => bytes(browser.val) = harness.val
        Itself(vk) == vk
        ProofBytes(result) == result.proofBytes
    IN /\ BothLayersCalled("constructVmStarkVk") =>
            Same(ResultOf("proof-utils.js"), ResultOf("test-verify.mjs"), Itself)
       /\ BothLayersCalled("buildProofBytes") =>
            Same(ResultOf("proof-utils.js"), ResultOf("test-verify.mjs"), ProofBytes)

\* both layers have built a VK from an over-long exe commitment and a
\* prefixed vm commitment
C29_Witness ==
    /\ BothLayersCalled("constructVmStarkVk")
    /\ Len(args[1][2]) > 64
    /\ IsPrefix(<<"0", "x">>, args[1][3])
    /\ ResultOf("test-verify.mjs").tag = "ok"
    /\ Len(ResultOf("test-verify.mjs").val) > Len(args[1][1])

-----------------------------------------------------------------------------
(* C30 *)

\* The run of teardown.sh, its standard input, and whether it has ended
Script == proc[1]
Stdin == args[1]
Exited == Script.pc = "exit"

\* The first line of the input, when the input holds the end of a line
HasLine == \E k \in 1..Len(Stdin) : Stdin[k] = "\n"
FirstLine ==
    SubSeq(Stdin, 1, (CHOOSE k \in 1..Len(Stdin) :
                        Stdin[k] = "\n" /\ \A j \in 1..(k - 1) : Stdin[j] # "\n") - 1)

\* s without the blanks at its ends
Trimmed(s) ==
    IF \A k \in 1..Len(s) : s[k] = " " THEN << >>
    ELSE SubSeq(s, CHOOSE k \in 1..Len(s) :
                        s[k] # " " /\ \A j \in 1..(k - 1) : s[j] = " ",
                   CHOOSE k \in 1..Len(s) :
                        s[k] # " " /\ \A j \in (k + 1)..Len(s) : s[j] = " ")

\* The input holds a first line, and no backslash is in it
PlainLine == HasLine /\ \A k \in 1..Len(FirstLine) : FirstLine[k] # "\\"

Yes == {<<"y">>, <<"Y">>}

BothFilesPresent == fs["Makefile"].exists /\ fs["web/conf/.env"].exists

\* The script has asked its question, and read has been run
Asked == Logged(Script, "This will:")
ReadDone == Asked /\ Script.pc # "read"

\* C30, as stated: ssh commands run only after an answer that is exactly y or
\* Y, every other input ends the script with status 0 and no ssh command,
\* and no ssh command runs when the Makefile or web/conf/.env is missing.
C30_OnlyTheExactAnswer ==
    /\ Script.ssh # << >> => HasLine /\ FirstLine \in Yes
    /\ (Exited /\ Asked /\ ~(HasLine /\ FirstLine \in Yes)) =>
                Script.status = 0 /\ Script.ssh = << >>
    /\ ~BothFilesPresent => Script.ssh = << >>

\* C30: teardown.sh runs no ssh command unless the operator confirms. An
\* ssh command has run only after read completed and the value it stored in
\* confirm was y or Y: for an answer without a backslash that value is the
\* answer line without the blanks at its ends. With any other such answer,
\* the empty line included, and whenever read stored another value, the
\* script prints "Aborted." and ends with status 0 and no ssh command; when
\* the input ends before the end of a line, or the Makefile or web/conf/.env
\* is missing, it ends with status 1 and no ssh command.
C30_NoTeardownUnlessConfirmed ==
    /\ Script.ssh # << >> =>
            /\ Script.confirm \in Yes
            /\ BothFilesPresent
            /\ HasLine
            /\ ReadDone
    /\ (ReadDone /\ PlainLine) => Script.confirm = Trimmed(FirstLine)
    /\ (Exited /\ ReadDone /\ PlainLine /\ Trimmed(FirstLine) \notin Yes) =>
            /\ Logged(Script, "Aborted.")
            /\ Script.status = 0
            /\ Script.ssh = << >>
    /\ (Exited /\ Script.ssh = << >>) =>
            \/ /\ Script.status = 0
               /\ Logged(Script, "Aborted.")
               /\ ReadDone
               /\ Script.confirm \notin Yes
            \/ /\ Script.status = 1
               /\ ~Logged(Script, "Aborted.")
    /\ (Exited /\ (~BothFilesPresent \/ ~HasLine)) =>
            Script.status = 1 /\ Script.ssh = << >>

\* the operator answered " y": the answer is not exactly y, and the
\* deployment directory has been removed
C30_Witness ==
    /\ Stdin = <<" ", "y", "\n">>
    /\ Script.confirm = <<"y">>
    /\ \E k \in 1..Len(Script.ssh) : Script.ssh[k] = "rm -rf $REMOTE_PATH"

=============================================================================
